---- MODULE Spec2Model ----
(***************************************************************************)
(* Step-execution engine of Auto_gui_tool.py (class AutoActionTool):       *)
(* the step model, the nested-loop plan expander, the worker that walks    *)
(* the plan, the image-click and cmd_command handlers and the command      *)
(* safety validator.                                                       *)
(*                                                                         *)
(* Step indices and plan entries are 0-based as in the source; TLA+        *)
(* sequences are 1-based, so steps[i + 1] is the source's steps[i].        *)
(***************************************************************************)
EXTENDS Integers, Sequences, FiniteSets, TLC

VARIABLES
    steps,      \* self.steps: the step sequence
    running,    \* self.running: the shared running / cancellation flag
    execution_start_index,  \* self.execution_start_index
    thr,        \* worker threads: thread id -> locals of the worker
    run_button, \* state of self.run_button: "normal" or "disabled"
    command,    \* the text handed to the function under check: a command
                \* for _validate_command_safety, a scheduled_time for
                \* _wait_for_scheduled_time
    result      \* value returned by the last call of a pure function

vars == <<steps, running, run_button, execution_start_index, thr, command, result>>

(***************************************************************************)
(* Bounds of the model.                                                    *)
(***************************************************************************)
MaxPlanSteps == 5   \* longest step sequence handed to the expander alone
MaxCount == 3       \* largest repeat count in those sequences

None == "none"

\* no pure call made yet / the value returned by call op
NoResult == [op |-> None]
Returned(op, val) == [op |-> op, val |-> val]

(***************************************************************************)
(* Step (dataclass Step): type, params (a dict: a function whose domain    *)
(* is the set of keys present), enabled.                                   *)
(***************************************************************************)
Step(type, params, enabled) ==
    [type |-> type, params |-> params, enabled |-> enabled]

NoParams == [k \in {} |-> 0]

\* dict.get(key, default)
Get(params, key, default) ==
    IF key \in DOMAIN params THEN params[key] ELSE default

\* steps[i] of the source (0-based)
StepAt(ss, i) == ss[i + 1]

(***************************************************************************)
(* Plan Expander: _expand_nested_loops.                                    *)
(* The result is [ok |-> TRUE, plan |-> <<entry, ...>>] or, when the       *)
(* ValueError of the unmatched repeat_start is raised,                     *)
(* [ok |-> FALSE, at |-> index named in the message].                      *)
(***************************************************************************)
PlanOk(plan) == [ok |-> TRUE, plan |-> plan]
PlanError(i) == [ok |-> FALSE, at |-> i]

\* a plan entry: the tuple (step index, nest level)
Entry(i, nest_level) == <<i, nest_level>>

\* repeat_count = step.params.get('count', 1)
RepeatCountNoDefault(step) == Get(step.params, "count", 0)
RepeatCount(step) == Get(step.params, "count", 1)

\* nest level handed to iteration repeat_iter: nest_level + repeat_iter + 1
IterLevelFlat(nest_level, repeat_iter) == nest_level + 1
IterLevel(nest_level, repeat_iter) == nest_level + repeat_iter + 1

\* one step of the scan for the matching repeat_end: the new nest_depth
DepthAfterNoNesting(step, nest_depth) ==
    IF step.type = "repeat_end" THEN nest_depth - 1 ELSE nest_depth
DepthAfter(step, nest_depth) ==
    IF step.type = "repeat_start" THEN nest_depth + 1
    ELSE IF step.type = "repeat_end" THEN nest_depth - 1
    ELSE nest_depth

\* if nest_depth == 0: the matching repeat_end was found
EndFoundAlways(nest_depth) == TRUE
EndFound(nest_depth) == nest_depth = 0

\* end_pos -= 1: from the scan's exit position to the repeat_end's index
LoopEndIndexUnadjusted(found_pos) == found_pos
LoopEndIndex(found_pos) == found_pos - 1

\* a repeat_end met outside a loop: i += 1, nothing appended
AfterOrphanEndSkip(i) == i + 2
AfterOrphanEnd(i) == i + 1

\* index after a plain step: i += 1
AfterPlainSkip(i) == i + 2
AfterPlain(i) == i + 1

\* the inner while loop: returns <<end_pos, nest_depth>> at loop exit
RECURSIVE FindEnd(_, _, _, _)
FindEnd(ss, end_pos, end_idx, nest_depth) ==
    IF end_pos < end_idx /\ nest_depth > 0
    THEN FindEnd(ss, end_pos + 1, end_idx,
                 DepthAfter(StepAt(ss, end_pos), nest_depth))
    ELSE <<end_pos, nest_depth>>

RECURSIVE _expand_nested_loops(_, _, _, _)
RECURSIVE ExpandIterations(_, _, _, _, _, _)

\* for repeat_iter in range(repeat_count): inner plan, then the repeat_end
ExpandIterations(ss, i, end_pos, nest_level, repeat_iter, repeat_count) ==
    IF repeat_iter >= repeat_count THEN PlanOk(<<>>)
    ELSE LET inner == _expand_nested_loops(ss, i + 1, end_pos,
                          IterLevel(nest_level, repeat_iter))
         IN  IF ~inner.ok THEN inner
             ELSE LET more == ExpandIterations(ss, i, end_pos, nest_level,
                                  repeat_iter + 1, repeat_count)
                  IN  IF ~more.ok THEN more
                      ELSE PlanOk(inner.plan
                                  \o <<Entry(end_pos, IterLevel(nest_level, repeat_iter))>>
                                  \o more.plan)

_expand_nested_loops(ss, i, end_idx, nest_level) ==
    IF i >= end_idx THEN PlanOk(<<>>)
    ELSE LET step == StepAt(ss, i) IN
      IF step.type = "repeat_start" THEN
        LET found == FindEnd(ss, i + 1, end_idx, 1) IN
          IF EndFound(found[2]) THEN
            LET end_pos == LoopEndIndex(found[1])
                body == ExpandIterations(ss, i, end_pos, nest_level, 0,
                                         RepeatCount(step))
            IN  IF ~body.ok THEN body
                ELSE LET rest == _expand_nested_loops(ss, end_pos + 1, end_idx,
                                                      nest_level)
                     IN  IF ~rest.ok THEN rest
                         ELSE PlanOk(<<Entry(i, nest_level)>> \o body.plan
                                     \o rest.plan)
          ELSE PlanError(i)
      ELSE IF step.type = "repeat_end" THEN
        _expand_nested_loops(ss, AfterOrphanEnd(i), end_idx, nest_level)
      ELSE
        LET rest == _expand_nested_loops(ss, AfterPlain(i), end_idx, nest_level)
        IN  IF ~rest.ok THEN rest
            ELSE PlanOk(<<Entry(i, nest_level)>> \o rest.plan)

_generate_execution_plan(ss) == _expand_nested_loops(ss, 0, Len(ss), 0)

(***************************************************************************)
(* The expander as a pure function: the sequences handed to it, and the    *)
(* call.                                                                   *)
(***************************************************************************)
PlainStep == Step("key", [key |-> "enter"], TRUE)
RepeatStart(n) == Step("repeat_start", [count |-> n], TRUE)
RepeatStartNoCount == Step("repeat_start", NoParams, TRUE)
RepeatEnd == Step("repeat_end", NoParams, TRUE)

PlanPool ==
    {PlainStep, RepeatEnd, RepeatStartNoCount}
        \cup {RepeatStart(n) : n \in 0..MaxCount}

SeqsUpTo(S, n) == UNION {[1..k -> S] : k \in 0..n}

NoThreads == [t \in {} |-> None]

InitPlan ==
    /\ steps \in SeqsUpTo(PlanPool, MaxPlanSteps)
    /\ running = FALSE
    /\ run_button = "normal"
    /\ execution_start_index = 0
    /\ thr = NoThreads
    /\ command = None
    /\ result = NoResult

ExpandPlan ==
    /\ result.op = None
    /\ result' = Returned("expand", _generate_execution_plan(steps))
    /\ UNCHANGED <<steps, running, run_button, execution_start_index, thr, command>>

NextPlan == ExpandPlan

SpecPlan == InitPlan /\ [][NextPlan]_vars

(***************************************************************************)
(* Claims about the expander (checked under SpecPlan).                     *)
(***************************************************************************)
IsStart(step) == step.type = "repeat_start"
IsEnd(step) == step.type = "repeat_end"
IsMarker(step) == IsStart(step) \/ IsEnd(step)
NoMarkers(ss) == \A k \in DOMAIN ss : ~IsMarker(ss[k])
HasCount(step) == "count" \in DOMAIN step.params

Expanded == result.op = "expand"

\* the step indices of a plan, in plan order
PlanIndices(plan) == [p \in DOMAIN plan |-> plan[p][1]]

\* number of entries of the plan that reference step k
Occurrences(plan, k) == Cardinality({p \in DOMAIN plan : plan[p][1] = k})

\* C1: a step sequence with no repeat_start and no repeat_end expands to a
\* plan with exactly one entry per step, in input order: entry k references
\* step index k at nest level 0.
C1_PlanLength ==
    (Expanded /\ NoMarkers(steps)) =>
        /\ result.val.ok
        /\ result.val.plan = [k \in 1..Len(steps) |-> <<k - 1, 0>>]

C1_Witness ==
    /\ Expanded
    /\ NoMarkers(steps)
    /\ Len(steps) = 3
    /\ result.val.ok
    /\ Len(result.val.plan) = 3

\* steps[a] is a repeat_start carrying a count, steps[j] its repeat_end, and
\* no other step of the sequence is a loop marker (a, j 0-based)
SimpleLoop(ss, a, j) ==
    /\ a < j
    /\ IsStart(StepAt(ss, a)) /\ HasCount(StepAt(ss, a))
    /\ IsEnd(StepAt(ss, j))
    /\ \A k \in 0..(Len(ss) - 1) : k \notin {a, j} => ~IsMarker(StepAt(ss, k))

\* the step indices the claim expects for a simple loop a..j repeated n times
\* in a sequence of len steps: 0..a, then n times (a+1..j), then j+1..len-1
UnrolledIndices(a, j, n, len) ==
    [p \in 1..(a + 1 + n * (j - a) + (len - 1 - j)) |->
        IF p <= a + 1 THEN p - 1
        ELSE IF p <= a + 1 + n * (j - a) THEN a + 1 + ((p - a - 2) % (j - a))
        ELSE j + (p - (a + 1 + n * (j - a)))]

\* C2: for a balanced loop region repeat_start(count = n) ... repeat_end
\* whose body has no loop markers, the plan holds the repeat_start once,
\* then n repetitions of (the body steps in order, then the repeat_end),
\* with the steps before and after the region once, in their positions.
C2_LoopUnrolling ==
    Expanded =>
        \A a, j \in 0..(Len(steps) - 1) :
            SimpleLoop(steps, a, j) =>
                /\ result.val.ok
                /\ PlanIndices(result.val.plan) =
                       UnrolledIndices(a, j, StepAt(steps, a).params.count,
                                       Len(steps))

\* [A, repeat_start(3), B, repeat_end, C] gives the 9 entries
\* [A, start, B, end, B, end, B, end, C]
C2_Witness ==
    /\ Expanded
    /\ steps = <<PlainStep, RepeatStart(3), PlainStep, RepeatEnd, PlainStep>>
    /\ result.val.ok
    /\ PlanIndices(result.val.plan) = <<0, 1, 2, 3, 2, 3, 2, 3, 4>>

\* number of repeat_start minus number of repeat_end among steps a..j
MarkerDepth(ss, a, j) ==
    Cardinality({k \in a..j : IsStart(StepAt(ss, k))})
        - Cardinality({k \in a..j : IsEnd(StepAt(ss, k))})

\* every repeat_end closes a repeat_start and every repeat_start is closed
Balanced(ss) ==
    /\ \A j \in 0..(Len(ss) - 1) : MarkerDepth(ss, 0, j) >= 0
    /\ MarkerDepth(ss, 0, Len(ss) - 1) = 0

\* the repeat_start markers whose loop region encloses step k
Enclosing(ss, k) ==
    {a \in 0..(k - 1) :
        /\ IsStart(StepAt(ss, a))
        /\ \A j \in a..(k - 1) : MarkerDepth(ss, a, j) > 0}

RECURSIVE ProductOfCounts(_, _)
ProductOfCounts(ss, S) ==
    IF S = {} THEN 1
    ELSE LET a == CHOOSE x \in S : TRUE
         IN  StepAt(ss, a).params.count * ProductOfCounts(ss, S \ {a})

AllCounted(ss) == \A k \in DOMAIN ss : IsStart(ss[k]) => HasCount(ss[k])

\* C3: for balanced nested loops every plain step, and every repeat_start,
\* appears in the plan as many times as the product of the counts of the
\* repeat_start markers enclosing it.
C3_Nesting ==
    (Expanded /\ Balanced(steps) /\ AllCounted(steps)) =>
        /\ result.val.ok
        /\ \A k \in 0..(Len(steps) - 1) :
               ~IsEnd(StepAt(steps, k)) =>
                   Occurrences(result.val.plan, k) =
                       ProductOfCounts(steps, Enclosing(steps, k))

\* X inside two nested loops of count 2 appears 4 times, the inner start twice
C3_Witness ==
    /\ Expanded
    /\ steps = <<RepeatStart(2), RepeatStart(2), PlainStep, RepeatEnd, RepeatEnd>>
    /\ result.val.ok
    /\ Occurrences(result.val.plan, 2) = 4
    /\ Occurrences(result.val.plan, 1) = 2

(***************************************************************************)
(* Characters.  A command is a string; a character is a string of length   *)
(* one.  Ord is Python's ord() on the characters the model uses: the       *)
(* control characters TLA+ can write and printable ASCII.                  *)
(***************************************************************************)
\* code points 32..95 and 97..126 (a TLA+ string cannot hold the grave
\* accent, code point 96, and no command of the model holds one)
PrintableTo95 ==
    " !\"#$%&'()*+,-./0123456789:;<=>?@ABCDEFGHIJKLMNOPQRSTUVWXYZ[\\]^_"
PrintableFrom97 == "abcdefghijklmnopqrstuvwxyz{|}~"

CharAt(s, i) == SubSeq(s, i, i)

Ord(c) ==
    CASE c = "\t" -> 9
      [] c = "\n" -> 10
      [] c = "\f" -> 12
      [] c = "\r" -> 13
      [] \E n \in 1..Len(PrintableFrom97) : CharAt(PrintableFrom97, n) = c ->
             96 + (CHOOSE n \in 1..Len(PrintableFrom97) :
                       CharAt(PrintableFrom97, n) = c)
      [] OTHER ->
             31 + (CHOOSE n \in 1..Len(PrintableTo95) :
                       CharAt(PrintableTo95, n) = c)

Chr(n) ==
    IF n >= 97 THEN CharAt(PrintableFrom97, n - 96)
    ELSE CharAt(PrintableTo95, n - 31)

\* str.lower() on one character
Lower(c) ==
    IF Ord(c) >= 65 /\ Ord(c) <= 90 THEN Chr(Ord(c) + 32) ELSE c

\* command_lower = command.lower()
RECURSIVE LowerStrFrom(_, _)
LowerStrFrom(s, i) ==
    IF i > Len(s) THEN "" ELSE Lower(CharAt(s, i)) \o LowerStrFrom(s, i + 1)

LowerStrIdentity(s) == s
LowerStr(s) == LowerStrFrom(s, 1)

(***************************************************************************)
(* Regular expressions of dangerous_patterns, as data: a pattern is a      *)
(* sequence of atoms, matched as re.search matches it.                     *)
(***************************************************************************)
Lit(s) == [k |-> "lit", s |-> s]                      \* literal text
Rep(cls, q) == [k |-> "cls", cls |-> cls, q |-> q]    \* class, q: "1" "+" "*"
Alt(alts) == [k |-> "alt", alts |-> alts]             \* ( p1 | p2 | ... )
EndAnchor == [k |-> "end"]                            \* $

Space == [tag |-> "space"]             \* \s
Dot == [tag |-> "dot"]                 \* .
Digit == [tag |-> "digit"]             \* \d
LowerAZ == [tag |-> "lower"]           \* [a-z]
OneOf(S) == [tag |-> "set", set |-> S] \* [...]

SpaceChars == {" ", "\t", "\n", "\r", "\f"}
Digits == {"0", "1", "2", "3", "4", "5", "6", "7", "8", "9"}

InClass(c, cls) ==
    CASE cls.tag = "space" -> c \in SpaceChars
      [] cls.tag = "dot" -> c # "\n"
      [] cls.tag = "digit" -> c \in Digits
      [] cls.tag = "lower" -> Ord(c) >= 97 /\ Ord(c) <= 122
      [] cls.tag = "set" -> c \in cls.set

\* the character as the matcher sees it: folded to lower case when the
\* match is case-insensitive
Seen(s, i, fold) == IF fold THEN Lower(CharAt(s, i)) ELSE CharAt(s, i)

\* whether literal lit occurs in s at position i
LitAt(lit, s, i, fold) ==
    /\ i + Len(lit) - 1 <= Len(s)
    /\ \A d \in 1..Len(lit) : Seen(s, i + d - 1, fold) = CharAt(lit, d)

\* length of the longest run of characters of class cls in s from position i
RECURSIVE RunLength(_, _, _, _)
RunLength(cls, s, i, fold) ==
    IF i <= Len(s) /\ InClass(Seen(s, i, fold), cls)
    THEN 1 + RunLength(cls, s, i + 1, fold)
    ELSE 0

\* the positions at which atoms k.. of pat can end when started at i
RECURSIVE MatchFrom(_, _, _, _, _)
MatchFrom(pat, k, s, i, fold) ==
    IF k > Len(pat) THEN {i}
    ELSE LET a == pat[k] IN
      CASE a.k = "lit" ->
             IF LitAt(a.s, s, i, fold)
             THEN MatchFrom(pat, k + 1, s, i + Len(a.s), fold)
             ELSE {}
        [] a.k = "cls" ->
             LET n == RunLength(a.cls, s, i, fold)
                 taken == CASE a.q = "1" -> IF n >= 1 THEN {1} ELSE {}
                            [] a.q = "+" -> 1..n
                            [] a.q = "*" -> 0..n
             IN  UNION {MatchFrom(pat, k + 1, s, i + m, fold) : m \in taken}
        [] a.k = "alt" ->
             UNION {UNION {MatchFrom(pat, k + 1, s, j, fold) :
                              j \in MatchFrom(a.alts[x], 1, s, i, fold)} :
                       x \in DOMAIN a.alts}
        [] a.k = "end" ->
             IF i = Len(s) + 1 \/ (i = Len(s) /\ CharAt(s, i) = "\n")
             THEN MatchFrom(pat, k + 1, s, i, fold)
             ELSE {}

\* re.search(pattern, s)
Search(pat, s, fold) ==
    \E i \in 1..(Len(s) + 1) : MatchFrom(pat, 1, s, i, fold) # {}

WS1 == Rep(Space, "+")     \* \s+
WS0 == Rep(Space, "*")     \* \s*
AnyText == Rep(Dot, "*")       \* .*
Lits(ws) == Alt([x \in DOMAIN ws |-> <<Lit(ws[x])>>])   \* (w1|w2|...)

dangerous_patterns == <<
    \* file deletion
    <<Lit("del"), WS1, AnyText,
      Alt(<< <<Lit("/"), Rep(OneOf({"s", "q"}), "1")>>, <<Lit("\\")>>, <<Lit("*")>> >>)>>,
    <<Lit("rmdir"), WS1, AnyText, Lits(<<"/s", "/q">>)>>,
    <<Lit("rd"), WS1, AnyText, Lits(<<"/s", "/q">>)>>,
    <<Lit("erase"), WS1, AnyText, Lits(<<"*", "\\">>)>>,
    <<Lit("remove-item"), WS1, AnyText, Lits(<<"-recurse", "-force">>)>>,
    \* system operations
    <<Lit("format"), WS1, Rep(LowerAZ, "1"), Lit(":")>>,
    <<Lit("fdisk"), WS1>>,
    <<Lit("diskpart"), WS0, EndAnchor>>,
    <<Lit("bootrec"), WS1>>,
    <<Lit("bcdedit"), WS1>>,
    \* system control
    <<Lit("shutdown"), WS1, AnyText,
      Alt(<< <<Lit("/"), Rep(OneOf({"r", "s"}), "1")>>,
             <<Lit("/"), Rep(OneOf({"f", "t", "h"}), "1")>> >>)>>,
    <<Lit("restart-computer")>>,
    <<Lit("stop-computer")>>,
    \* network / security
    <<Lit("netsh"), WS1>>,
    <<Lit("netstat"), WS1, AnyText, Lits(<<"-a", "-n">>)>>,
    <<Lit("arp"), WS1, Lit("-"), Rep(OneOf({"a", "d", "s"}), "1")>>,
    \* registry
    <<Lit("reg"), WS1, Lits(<<"delete", "add", "import">>)>>,
    <<Lit("regedit"), WS1, Lit("/"), Rep(OneOf({"s", "i"}), "1")>>,
    \* services
    <<Lit("sc"), WS1, Lits(<<"delete", "create", "config">>)>>,
    <<Lit("net"), WS1, Lits(<<"start", "stop", "user">>)>>,
    <<Lit("wmic"), WS1>>,
    \* processes
    <<Lit("taskkill"), WS1, AnyText, Lits(<<"/f", "/im">>)>>,
    <<Lit("tskill"), WS1>>,
    <<Lit("stop-process"), WS1, AnyText, Lit("-force")>>,
    \* PowerShell
    <<Lit("powershell"), Rep(Space, "1"), AnyText,
      Alt(<< <<Lit("-encodedcommand")>>, <<Lit("-enc")>>,
             <<Lit("-ep"), WS1, Lit("bypass")>> >>)>>,
    <<Lit("invoke-expression"), WS0, Lit("(")>>,
    <<Lit("iex"), WS0, Lit("(")>>,
    <<Lit("invoke-webrequest"), AnyText, Lit("downloadfile")>>,
    <<Lit("start-process"), WS1, AnyText, Lit("-windowstyle"), WS1, Lit("hidden")>>,
    \* scheduling
    <<Lit("schtasks"), WS1, AnyText, Lits(<<"/create", "/delete">>)>>,
    <<Lit("at"), WS1, Rep(Digit, "+"), Lit(":"), Rep(Digit, "+")>>,
    \* firewall
    <<Lit("netsh"), WS1, Lit("advfirewall")>>,
    <<Lit("netsh"), WS1, Lit("firewall")>>,
    \* command chaining
    \* [;&|`]: the class without the grave accent, see PrintableTo95
    <<Rep(OneOf({";", "&", "|"}), "1"), WS0,
      Lits(<<"del", "rmdir", "rd", "format", "shutdown">>)>>,
    <<Lit("|"), WS0, Lits(<<"del", "rmdir", "rd", "format">>)>>,
    \* hiding
    <<Lit("attrib"), WS1, AnyText, Lit("+"), Rep(OneOf({"h", "s"}), "1")>>,
    <<Lit("icacls"), WS1, AnyText, Lits(<<"/deny", "/remove">>)>>,
    \* batch / script execution
    <<Lit("cmd"), WS1, Lit("/c"), WS1, AnyText, Lits(<<"|", "&">>)>>,
    <<Lit("start"), WS1, Lit("/min")>>
  >>

\* any(ord(c) < 32 and c not in ['\t', '\n', '\r'] for c in command)
HasForbiddenControl(cmd) ==
    \E i \in 1..Len(cmd) :
        Ord(CharAt(cmd, i)) < 32 /\ CharAt(cmd, i) \notin {"\t", "\n", "\r"}

_validate_command_safety(cmd) ==
    LET command_lower == LowerStr(cmd) IN
      IF \E x \in DOMAIN dangerous_patterns :
             Search(dangerous_patterns[x], command_lower, FALSE)
      THEN FALSE
      ELSE IF HasForbiddenControl(cmd) THEN FALSE
      ELSE TRUE

(***************************************************************************)
(* The validator as a pure function: the commands handed to it, and the    *)
(* call.                                                                   *)
(***************************************************************************)
MaxCmdWords == 2    \* words per generated command

CmdWords == {"del", "DEL", "/S", "C:\\", "echo", "reg", "Delete"}
CmdSeparators == {" ", "", "\n", "\f"}

RECURSIVE CommandsOf(_)
CommandsOf(n) ==
    IF n <= 1 THEN CmdWords
    ELSE LET shorter == CommandsOf(n - 1)
         IN  shorter \cup {c \o sep \o w :
                              c \in shorter, sep \in CmdSeparators, w \in CmdWords}

ExampleCommands ==
    {"del /s /q C:\\", "shutdown /r /f", "reg delete HKLM\\Software",
     "echo hello"}

InitSafety ==
    /\ steps = <<>>
    /\ running = FALSE
    /\ run_button = "normal"
    /\ execution_start_index = 0
    /\ thr = NoThreads
    /\ command \in ExampleCommands \cup CommandsOf(MaxCmdWords)
    /\ result = NoResult

ValidateCommand ==
    /\ result.op = None
    /\ result' = Returned("validate", _validate_command_safety(command))
    /\ UNCHANGED <<steps, running, run_button, execution_start_index, thr, command>>

NextSafety == ValidateCommand

SpecSafety == InitSafety /\ [][NextSafety]_vars

(***************************************************************************)
(* Claims about the validator (checked under SpecSafety).                  *)
(***************************************************************************)
Validated == result.op = "validate"

\* some denylisted pattern matches the command text, letter case ignored
MatchesDenylist(cmd) ==
    \E x \in DOMAIN dangerous_patterns : Search(dangerous_patterns[x], cmd, TRUE)

\* C10: the validator rejects every command that matches a denylisted
\* pattern case-insensitively or holds a control character other than tab,
\* newline and carriage return, and accepts every other command;
\* `del /s /q C:\`, `shutdown /r /f`, `reg delete HKLM...` are rejected and
\* `echo hello` is accepted.
C10_CommandSafety ==
    Validated =>
        /\ result.val = ~(MatchesDenylist(command) \/ HasForbiddenControl(command))
        /\ command \in {"del /s /q C:\\", "shutdown /r /f",
                        "reg delete HKLM\\Software"} => result.val = FALSE
        /\ command = "echo hello" => result.val = TRUE

\* an upper-case spelling of a denylisted command has been rejected
C10_Witness ==
    /\ Validated
    /\ command = "DEL /S"
    /\ result.val = FALSE

(***************************************************************************)
(* Plan expansion for "run from selected step":                            *)
(* _expand_nested_loops_from_steps works on the suffix steps[start:] and   *)
(* adds the offset to every index it emits.                                *)
(***************************************************************************)
RECURSIVE _expand_nested_loops_from_steps(_, _, _, _, _)
RECURSIVE ExpandIterationsFrom(_, _, _, _, _, _, _)

ExpandIterationsFrom(ss, i, end_pos, offset, nest_level, repeat_iter, repeat_count) ==
    IF repeat_iter >= repeat_count THEN PlanOk(<<>>)
    ELSE LET inner == _expand_nested_loops_from_steps(ss, i + 1, end_pos, offset,
                          IterLevel(nest_level, repeat_iter))
         IN  IF ~inner.ok THEN inner
             ELSE LET more == ExpandIterationsFrom(ss, i, end_pos, offset,
                                  nest_level, repeat_iter + 1, repeat_count)
                  IN  IF ~more.ok THEN more
                      ELSE PlanOk(inner.plan
                                  \o <<Entry(end_pos + offset,
                                             IterLevel(nest_level, repeat_iter))>>
                                  \o more.plan)

_expand_nested_loops_from_steps(ss, i, end_idx, offset, nest_level) ==
    IF i >= end_idx THEN PlanOk(<<>>)
    ELSE LET step == StepAt(ss, i)
             actual_index == i + offset
         IN
      IF step.type = "repeat_start" THEN
        LET found == FindEnd(ss, i + 1, end_idx, 1) IN
          IF EndFound(found[2]) THEN
            LET end_pos == LoopEndIndex(found[1])
                body == ExpandIterationsFrom(ss, i, end_pos, offset, nest_level,
                                             0, RepeatCount(step))
            IN  IF ~body.ok THEN body
                ELSE LET rest == _expand_nested_loops_from_steps(ss, end_pos + 1,
                                     end_idx, offset, nest_level)
                     IN  IF ~rest.ok THEN rest
                         ELSE PlanOk(<<Entry(actual_index, nest_level)>>
                                     \o body.plan \o rest.plan)
          ELSE PlanError(actual_index)
      ELSE IF step.type = "repeat_end" THEN
        _expand_nested_loops_from_steps(ss, AfterOrphanEnd(i), end_idx, offset, nest_level)
      ELSE
        LET rest == _expand_nested_loops_from_steps(ss, AfterPlain(i), end_idx,
                                                    offset, nest_level)
        IN  IF ~rest.ok THEN rest
            ELSE PlanOk(<<Entry(actual_index, nest_level)>> \o rest.plan)

_generate_execution_plan_from_steps(ss, offset) ==
    _expand_nested_loops_from_steps(ss, 0, Len(ss), offset, 0)

\* steps[start_index:]
StepsFromNext(ss, start_index) == SubSeq(ss, start_index + 2, Len(ss))
StepsFrom(ss, start_index) == SubSeq(ss, start_index + 1, Len(ss))

(***************************************************************************)
(* Run Controller.  A worker thread runs _run_all_steps or _run_from_index *)
(* (both: _execute_loop around _execute_steps_for_monitor[_from_index]).   *)
(* thr[t] holds the worker's locals:                                       *)
(*   pc        where the worker is                                         *)
(*   mode      "all" (run_all_steps) or "from" (run_from_selected)         *)
(*   plan      execution_plan                                              *)
(*   pos       1-based position in the plan of the next entry              *)
(*   total     total_valid_steps      executed   executed_steps            *)
(*   entry     the plan entry being executed, step: its Step object        *)
(*   attempt   the image handlers' loop variable                           *)
(*   remaining the scheduled wait's counter                                *)
(*   outcome   how _execute_steps_for_monitor ended, err: the exception    *)
(*             message of the failing step, as a sequence of its parts     *)
(* and, for the statements about a step, what the step has done so far:    *)
(*   captures, clicks  screen captures and clicks of the current step      *)
(*   events    "validate", "wait", "spawn" of the current cmd_command      *)
(*   broke     the image handler left its loop through `break`             *)
(*   reported  the completion status and notification were shown           *)
(*   row       the row number the failure report names                     *)
(*   log       the plan entries dispatched so far, in order                *)
(*   cancelled stop_execution cleared the flag while the worker's run was  *)
(*             in progress                                                 *)
(***************************************************************************)
NoStep == Step(None, NoParams, FALSE)

IdleThread ==
    [pc |-> "idle", mode |-> None, plan |-> <<>>, pos |-> 0, total |-> 0,
     executed |-> 0, entry |-> <<0, 0>>, step |-> NoStep, attempt |-> 0,
     remaining |-> 0, outcome |-> None, err |-> <<>>, events |-> <<>>,
     broke |-> FALSE, reported |-> FALSE, row |-> 0, log |-> <<>>,
     built_from |-> <<>>, start_index |-> 0, cancelled |-> FALSE]

With(t, w) == [thr EXCEPT ![t] = w]

\* the handler returned: next plan entry
SucceededSkipAhead(w) == [w EXCEPT !.pc = "entry", !.pos = @ + 2]
Succeeded(w) == [w EXCEPT !.pc = "entry", !.pos = @ + 1]

\* the row the status line and the error dialog name: step_index + 1
FailedRowPlanPosition(w) == w.pos
FailedRow(w) == w.entry[1] + 1

\* the handler raised: `except Exception as e` of the plan loop, return False
Failed(w, e) ==
    [w EXCEPT !.pc = "finish", !.outcome = "failed", !.err = e, !.row = FailedRow(w)]

\* update_execution_buttons(running): the state it gives self.run_button
UpdateButtonsDisableOnly(is_running) == "disabled"
update_execution_buttons(is_running) == IF is_running THEN "disabled" ELSE "normal"

\* run_all_steps: no check of self.running; sets it and starts a thread
run_all_steps(t) ==
    /\ thr[t].pc = "idle"
    /\ running' = TRUE
    /\ run_button' = update_execution_buttons(TRUE)
    /\ thr' = With(t, [thr[t] EXCEPT !.pc = "loop", !.mode = "all"])
    /\ UNCHANGED <<steps, execution_start_index, command, result>>

\* run_from_selected: a step must be selected; start_index is its index
run_from_selected(t, start_index) ==
    /\ thr[t].pc = "idle"
    /\ start_index \in 0..(Len(steps) - 1)
    /\ execution_start_index' = start_index
    /\ running' = TRUE
    /\ thr' = With(t, [thr[t] EXCEPT !.pc = "loop", !.mode = "from"])
    /\ UNCHANGED <<steps, run_button, command, result>>

\* the worker's run_func has not returned yet
RunInProgress(w) == w.pc \notin {"idle", "finish", "done"}

\* stop_execution
stop_execution ==
    /\ running' = FALSE
    /\ run_button' = update_execution_buttons(FALSE)
    /\ thr' = [t \in DOMAIN thr |->
                 IF running /\ RunInProgress(thr[t])
                 THEN [thr[t] EXCEPT !.cancelled = TRUE] ELSE thr[t]]
    /\ UNCHANGED <<steps, execution_start_index, command, result>>

\* toggle_step_enabled(index)
toggle_step_enabled(index) ==
    /\ index \in 0..(Len(steps) - 1)
    /\ steps' = [steps EXCEPT ![index + 1].enabled = ~@]
    /\ UNCHANGED <<running, run_button, execution_start_index, thr, command, result>>

\* _execute_loop with loop_count = 1: the single iteration's check of running
_execute_loop(t) ==
    /\ thr[t].pc = "loop"
    /\ thr' = With(t, [thr[t] EXCEPT !.pc = IF running THEN "plan" ELSE "finish"])
    /\ UNCHANGED <<steps, running, run_button, execution_start_index, command, result>>

\* the plan the worker builds, from the whole sequence or from the suffix
PlanForNoOffset(mode, ss, start_index) ==
    IF mode = "from"
    THEN _generate_execution_plan_from_steps(StepsFrom(ss, start_index), 0)
    ELSE _generate_execution_plan(ss)
PlanFor(mode, ss, start_index) ==
    IF mode = "from"
    THEN _generate_execution_plan_from_steps(StepsFrom(ss, start_index), start_index)
    ELSE _generate_execution_plan(ss)

\* total_valid_steps = sum(1 for step_index, _ in plan if steps[...].enabled)
TotalValidStepsAll(plan, ss) == Len(plan)
TotalValidSteps(plan, ss) ==
    Cardinality({p \in DOMAIN plan : StepAt(ss, plan[p][1]).enabled})

\* what the steps of a sequence are, without the enabled flag the user may
\* toggle: the type and the parameters of each
Contents(ss) == [i \in DOMAIN ss |-> [type |-> ss[i].type, params |-> ss[i].params]]

\* head of _execute_steps_for_monitor[_from_index]: build the plan and the
\* counters; the expander's ValueError reaches the outer except, which
\* resets running and returns False
BuildPlan(t) ==
    LET w == thr[t]
        built == PlanFor(w.mode, steps, execution_start_index)
    IN
    /\ w.pc = "plan"
    /\ IF built.ok
       THEN /\ thr' = With(t, [w EXCEPT !.pc = "entry", !.plan = built.plan,
                                         !.pos = 1, !.executed = 0,
                                         !.built_from = Contents(steps),
                                         !.start_index =
                                             IF w.mode = "from"
                                             THEN execution_start_index ELSE 0,
                                         !.total = TotalValidSteps(built.plan, steps)])
            /\ UNCHANGED <<running, run_button>>
       ELSE /\ thr' = With(t, [w EXCEPT !.pc = "finish", !.outcome = "plan_error",
                                         !.err = <<"no_matching_repeat_end", built.at>>])
            /\ running' = FALSE
            /\ run_button' = update_execution_buttons(FALSE)
    /\ UNCHANGED <<steps, execution_start_index, command, result>>

\* whether the plan loop hands the step to a handler: `if not step.enabled:
\* continue`
SkippedNever(step) == FALSE
Skipped(step) == ~step.enabled

\* where the dispatch chain sends a step of this type
HandlerPc(type) ==
    CASE type \in {"image_click", "image_relative_right_click"} -> "img_open"
      [] type = "cmd_command" -> "cmd"
      [] type = "sleep" -> "sleep"
      [] OTHER -> "exec"

\* the locals of a worker that starts executing plan entry e on step
Dispatched(w, e, step) ==
    [w EXCEPT !.executed = @ + 1, !.entry = e, !.step = step, !.attempt = 0,
              !.remaining = 0, !.events = <<>>, !.broke = FALSE,
              !.log = Append(@, e)]

\* one round of the plan loop: end of plan, the check of running, the skip
\* of a disabled step, or the dispatch of the step to its handler
PlanEntry(t) ==
    LET w == thr[t] IN
    /\ w.pc = "entry"
    /\ IF w.pos > Len(w.plan)
       THEN thr' = With(t, [w EXCEPT !.pc = "finish", !.outcome = "completed"])
       ELSE IF ~running
       THEN thr' = With(t, [w EXCEPT !.pc = "finish", !.outcome = "cancelled"])
       ELSE IF w.plan[w.pos][1] >= Len(steps)
       THEN \* self.steps[step_index] raises IndexError, outside the step's
            \* try: the outer except resets running and returns False
            thr' = With(t, [w EXCEPT !.pc = "finish", !.outcome = "error",
                                     !.err = <<"IndexError", w.plan[w.pos][1]>>])
       ELSE LET e == w.plan[w.pos]
                step == StepAt(steps, e[1])
                d == Dispatched(w, e, step)
            IN  IF Skipped(step)
                THEN thr' = With(t, [w EXCEPT !.pos = @ + 1])
                ELSE IF step.type = "repeat_start"
                THEN \* logs step.params['count']
                     IF "count" \in DOMAIN step.params
                     THEN thr' = With(t, Succeeded(d))
                     ELSE thr' = With(t, Failed(d, <<"KeyError", "count">>))
                ELSE IF step.type = "repeat_end"
                THEN thr' = With(t, Succeeded(d))
                ELSE thr' = With(t, [d EXCEPT !.pc = HandlerPc(step.type)])
    /\ running' = IF thr'[t].outcome \in {"failed", "error"} THEN FALSE ELSE running
    /\ run_button' = IF thr'[t].outcome \in {"failed", "error"}
                     THEN update_execution_buttons(FALSE) ELSE run_button
    /\ UNCHANGED <<steps, execution_start_index, command, result>>

\* the single-primitive handlers (_execute_key_action, _execute_coord_click,
\* _execute_coord_drag, _execute_custom_text, ...): the primitive returns
\* or raises, and the handler re-raises a RuntimeError
ExecReturn(t) ==
    LET w == thr[t] IN
    /\ w.pc = "exec"
    /\ \E ok \in BOOLEAN :
         /\ thr' = With(t, IF ok THEN Succeeded(w)
                           ELSE Failed(w, <<w.step.type, "primitive_failed">>))
         /\ running' = IF ok THEN running ELSE FALSE
         /\ run_button' = IF ok THEN run_button ELSE update_execution_buttons(FALSE)
    /\ UNCHANGED <<steps, execution_start_index, command, result>>

\* _execute_loop after run_func returned: running = False, the completion
\* status and notification, execution_start_index = 0
LoopFinish(t) ==
    /\ thr[t].pc = "finish"
    /\ running' = FALSE
    /\ run_button' = update_execution_buttons(FALSE)
    /\ execution_start_index' = 0
    /\ thr' = With(t, [thr[t] EXCEPT !.pc = "done", !.reported = TRUE])
    /\ UNCHANGED <<steps, command, result>>

(***************************************************************************)
(* The run of key steps and loop markers, enabled or not.                  *)
(***************************************************************************)
MaxSteps == 3       \* longest step sequence of a run
MaxWorkers == 1     \* worker threads ever started

Workers == 1..MaxWorkers

RunPool ==
    {Step("key", [key |-> "enter"], en) : en \in BOOLEAN}
        \cup {Step("repeat_start", [count |-> 2], TRUE),
              Step("repeat_end", NoParams, TRUE)}

Init ==
    /\ steps \in SeqsUpTo(RunPool, MaxSteps)
    /\ running = FALSE
    /\ run_button = "normal"
    /\ execution_start_index = 0
    /\ thr = [t \in Workers |-> IdleThread]
    /\ command = None
    /\ result = NoResult

Next ==
    \/ \E t \in DOMAIN thr : run_all_steps(t)
    \/ \E t \in DOMAIN thr : \E k \in 0..(MaxSteps - 1) : run_from_selected(t, k)
    \/ stop_execution
    \/ \E t \in DOMAIN thr : _execute_loop(t)
    \/ \E t \in DOMAIN thr : BuildPlan(t)
    \/ \E t \in DOMAIN thr : PlanEntry(t)
    \/ \E t \in DOMAIN thr : ExecReturn(t)
    \/ \E t \in DOMAIN thr : LoopFinish(t)

Spec == Init /\ [][Next]_vars

(***************************************************************************)
(* The same run with the foreground thread toggling steps while one        *)
(* worker runs.                                                            *)
(***************************************************************************)
InitEdit ==
    /\ steps \in SeqsUpTo(RunPool, MaxSteps)
    /\ running = FALSE
    /\ run_button = "normal"
    /\ execution_start_index = 0
    /\ thr = [t \in {1} |-> IdleThread]
    /\ command = None
    /\ result = NoResult

NextEdit ==
    \/ Next
    \/ \E k \in 0..(MaxSteps - 1) : toggle_step_enabled(k)

SpecEdit == InitEdit /\ [][NextEdit]_vars

(***************************************************************************)
(* _execute_image_click and _execute_image_right_click.  Scores and the    *)
(* threshold are in hundredths.  A worker's events list what the handler   *)
(* of its current step did to the outside: captures, clicks, validations,  *)
(* waits and spawns.                                                       *)
(***************************************************************************)
ImgThreshold == 80      \* the dialog's default threshold, 0.8

ImageTypes == {"image_click", "image_relative_right_click"}

Event(w, e) == [w EXCEPT !.events = Append(@, e)]

\* the prefix of the RuntimeError the handler's `except Exception` raises
WrapError(type) ==
    IF type = "image_click" THEN "image_click_failed" ELSE "image_right_click_failed"

\* params.get("click_type", "single"), and "right" for the offset click
DefaultClickTypeRight(type) == "right"
DefaultClickType(type) == IF type = "image_click" THEN "single" ELSE "right"

\* os.path.basename for a path written with "/"
RECURSIVE LastSlash(_, _)
LastSlash(path, i) ==
    IF i = 0 THEN 0
    ELSE IF SubSeq(path, i, i) = "/" THEN i
    ELSE LastSlash(path, i - 1)

Basename(path) == SubSeq(path, LastSlash(path, Len(path)) + 1, Len(path))

\* for attempt in range(retry + 1)
AttemptsRetryOnly(retry) == retry
Attempts(retry) == retry + 1

\* if max_val >= threshold
MatchFound(max_val, threshold) == max_val >= threshold

\* raise RuntimeError("image not found: basename"), as the handler wraps it
NotFound(w) ==
    Failed(w, <<WrapError(w.step.type), "image_not_found",
                Basename(w.step.params.path)>>)

\* the handler up to its loop: the parameters and the template's decoding
ImgPrepare(t) ==
    LET w == thr[t] IN
    /\ w.pc = "img_open"
    /\ \E decoded \in BOOLEAN :
         thr' = With(t,
             IF ~decoded
             THEN Failed(w, <<WrapError(w.step.type), "decode_failed",
                              w.step.params.path>>)
             ELSE IF Attempts(w.step.params.retry) <= 0
             THEN NotFound(Event(w, <<"decoded">>))
             ELSE [Event(w, <<"decoded">>) EXCEPT !.pc = "img", !.attempt = 0])
    /\ running' = IF thr'[t].outcome = "failed" THEN FALSE ELSE running
    /\ run_button' = IF thr'[t].outcome = "failed"
                     THEN update_execution_buttons(FALSE) ELSE run_button
    /\ UNCHANGED <<steps, execution_start_index, command, result>>

\* if not self.running: break
LoopBreaksNever(is_running) == FALSE
LoopBreaks(is_running) == ~is_running

\* one round of the loop: the check of running, the capture, the match and
\* the click, or the sleep and, after the last round, the not-found error
ImgAttempt(t) ==
    LET w == thr[t]
        params == w.step.params
        click_type == Get(params, "click_type", DefaultClickType(w.step.type))
    IN
    /\ w.pc = "img"
    /\ IF LoopBreaks(running)
       THEN thr' = With(t, NotFound([w EXCEPT !.broke = TRUE]))
       ELSE \/ thr' = With(t, Failed(Event(w, <<"capture_error">>),
                                     <<WrapError(w.step.type), "screenshot_failed">>))
            \/ \E max_val \in {ImgThreshold - 1, ImgThreshold, ImgThreshold + 1} :
                 LET c == Event(w, <<"capture", max_val>>) IN
                 thr' = With(t,
                     IF MatchFound(max_val, params.threshold)
                     THEN IF click_type \in {"single", "double", "right"}
                          THEN Succeeded(Event(c, <<"click", click_type>>))
                          ELSE Failed(c, <<WrapError(w.step.type),
                                           "invalid_click_type", click_type>>)
                     ELSE IF w.attempt + 1 >= Attempts(params.retry)
                     THEN NotFound([c EXCEPT !.attempt = @ + 1])
                     ELSE [c EXCEPT !.attempt = @ + 1])
    /\ running' = IF thr'[t].outcome = "failed" THEN FALSE ELSE running
    /\ run_button' = IF thr'[t].outcome = "failed"
                     THEN update_execution_buttons(FALSE) ELSE run_button
    /\ UNCHANGED <<steps, execution_start_index, command, result>>

MaxRetry == 2       \* largest retry parameter of an image step

\* image steps as the dialogs build them: the click type is the text of an
\* editable combobox, retry is checked against its minimum; a loaded
\* offset-click step may lack click_type
ImgPool ==
    {Step("image_click",
          [path |-> "img/ok.png", threshold |-> ImgThreshold, click_type |-> ct,
           retry |-> r, delay |-> 1], TRUE) :
        ct \in {"single", "double", "right", "middle"}, r \in 0..MaxRetry}
    \cup
    {Step("image_relative_right_click",
          [path |-> "img/ok.png", threshold |-> ImgThreshold, click_type |-> ct,
           offset_x |-> 5, offset_y |-> 0 - 5, retry |-> r, delay |-> 1], TRUE) :
        ct \in {"single", "double", "right", "middle"}, r \in 0..MaxRetry}
    \cup
    {Step("image_relative_right_click",
          [path |-> "img/ok.png", threshold |-> ImgThreshold,
           offset_x |-> 5, offset_y |-> 0 - 5, retry |-> r, delay |-> 1], TRUE) :
        r \in 0..MaxRetry}

InitImg ==
    /\ steps \in {<<s, PlainStep>> : s \in ImgPool}
    /\ running = FALSE
    /\ run_button = "normal"
    /\ execution_start_index = 0
    /\ thr = [t \in {1} |-> IdleThread]
    /\ command = None
    /\ result = NoResult

NextImg ==
    \/ \E t \in DOMAIN thr : run_all_steps(t)
    \/ stop_execution
    \/ \E t \in DOMAIN thr : _execute_loop(t)
    \/ \E t \in DOMAIN thr : BuildPlan(t)
    \/ \E t \in DOMAIN thr : PlanEntry(t)
    \/ \E t \in DOMAIN thr : ExecReturn(t)
    \/ \E t \in DOMAIN thr : ImgPrepare(t)
    \/ \E t \in DOMAIN thr : ImgAttempt(t)
    \/ \E t \in DOMAIN thr : LoopFinish(t)

SpecImg == InitImg /\ [][NextImg]_vars

(***************************************************************************)
(* _execute_cmd_command and _wait_for_scheduled_time.                      *)
(***************************************************************************)
\* the command texts of the model's cmd_command steps
CmdTexts == {"echo hello", "del /s /q C:\\", "Shutdown /r /f"}

\* self._validate_command_safety(command); the verdicts on CmdTexts are
\* computed once
SafetyVerdicts == [c \in CmdTexts |-> _validate_command_safety(c)]

CommandIsSafe(cmd) ==
    IF cmd \in CmdTexts THEN SafetyVerdicts[cmd] ELSE _validate_command_safety(cmd)

\* if not self._validate_command_safety(command): raise RuntimeError
CommandRejectedBlockingOnly(params) ==
    Get(params, "wait_completion", TRUE) /\ ~CommandIsSafe(params.command)
CommandRejected(params) == ~CommandIsSafe(params.command)

\* scheduled_time.split(':')
RECURSIVE SplitFrom(_, _, _)
SplitFrom(s, i, part) ==
    IF i > Len(s) THEN <<part>>
    ELSE IF CharAt(s, i) = ":" THEN <<part>> \o SplitFrom(s, i + 1, "")
    ELSE SplitFrom(s, i + 1, part \o CharAt(s, i))

time_parts(scheduled_time) == SplitFrom(scheduled_time, 1, "")

\* the digits of a part, after its sign if it has one
Unsigned(text) ==
    IF Len(text) > 0 /\ CharAt(text, 1) \in {"-", "+"}
    THEN SubSeq(text, 2, Len(text)) ELSE text

\* int(text) raises no ValueError: decimal digits after an optional sign
\* (the model's texts hold no blank and no underscore)
IsIntText(text) ==
    /\ Len(Unsigned(text)) > 0
    /\ \A i \in 1..Len(Unsigned(text)) : InClass(CharAt(Unsigned(text), i), Digit)

RECURSIVE DigitsValue(_, _)
DigitsValue(text, n) ==
    IF n = 0 THEN 0 ELSE 10 * DigitsValue(text, n - 1) + (Ord(CharAt(text, n)) - 48)

\* int(text)
IntValue(text) ==
    IF Len(text) > 0 /\ CharAt(text, 1) = "-"
    THEN 0 - DigitsValue(Unsigned(text), Len(Unsigned(text)))
    ELSE DigitsValue(Unsigned(text), Len(Unsigned(text)))

\* int(time_parts[k - 1])
IntPart(scheduled_time, k) == IntValue(time_parts(scheduled_time)[k])

\* len(time_parts) == 3 and each int(time_parts[k]) succeeds
WellFormedTime(scheduled_time) ==
    /\ Len(time_parts(scheduled_time)) = 3
    /\ \A k \in 1..3 : IsIntText(time_parts(scheduled_time)[k])

\* now.replace(hour=..., minute=..., second=..., microsecond=0) raises a
\* ValueError for a field out of range
ReplaceOk(hour, minute, second) ==
    /\ 0 <= hour /\ hour <= 23
    /\ 0 <= minute /\ minute <= 59
    /\ 0 <= second /\ second <= 59

\* the try block of _wait_for_scheduled_time reaches the wait: no ValueError
TimeAcceptedUnchecked(scheduled_time) == WellFormedTime(scheduled_time)
TimeAccepted(scheduled_time) ==
    /\ WellFormedTime(scheduled_time)
    /\ ReplaceOk(IntPart(scheduled_time, 1), IntPart(scheduled_time, 2),
                 IntPart(scheduled_time, 3))

MaxWait == 2        \* most seconds left until the scheduled time

\* the handler up to the scheduled wait: the parameters, the validator, and
\* the head of _wait_for_scheduled_time (remaining = int(wait_seconds))
CmdStart(t) ==
    LET w == thr[t]
        params == w.step.params
        scheduled_time == Get(params, "scheduled_time", None)
        v == Event(w, <<"validate", params.command, CommandIsSafe(params.command)>>)
    IN
    /\ w.pc = "cmd"
    /\ IF CommandRejected(params)
       THEN thr' = With(t, Failed(v, <<"cmd_failed", "unsafe_command">>))
       ELSE IF scheduled_time = None
       THEN thr' = With(t, [v EXCEPT !.pc = "cmd_run"])
       ELSE IF ~TimeAccepted(scheduled_time)
       THEN thr' = With(t, Failed(v, <<"cmd_failed", "bad_time_format">>))
       ELSE \E remaining \in 0..MaxWait :
                thr' = With(t, [Event(v, <<"wait", scheduled_time>>) EXCEPT
                                    !.pc = "wait", !.remaining = remaining])
    /\ running' = IF thr'[t].outcome = "failed" THEN FALSE ELSE running
    /\ run_button' = IF thr'[t].outcome = "failed"
                     THEN update_execution_buttons(FALSE) ELSE run_button
    /\ UNCHANGED <<steps, execution_start_index, command, result>>

\* while remaining > 0 and self.running
WaitGoesOnIgnoringFlag(remaining, is_running) == remaining > 0
WaitGoesOn(remaining, is_running) == remaining > 0 /\ is_running

\* one round of the loop: time.sleep(1); remaining -= 1, or the loop's exit
WaitTick(t) ==
    LET w == thr[t] IN
    /\ w.pc = "wait"
    /\ thr' = With(t, IF WaitGoesOn(w.remaining, running)
                      THEN [w EXCEPT !.remaining = @ - 1]
                      ELSE [w EXCEPT !.pc = "wait_exit"])
    /\ UNCHANGED <<steps, running, run_button, execution_start_index, command, result>>

\* if not self.running: return True
WaitInterruptedNever(is_running) == FALSE
WaitInterrupted(is_running) == ~is_running

\* the wait returned True and the handler returns, without running the
\* command; else the wait is over: the command is run, the sleep step ends
WaitExit(t) ==
    LET w == thr[t] IN
    /\ w.pc = "wait_exit"
    /\ thr' = With(t, IF WaitInterrupted(running)
                      THEN Succeeded([w EXCEPT !.broke = TRUE])
                      ELSE IF w.step.type = "sleep"
                      THEN Succeeded(w)
                      ELSE [w EXCEPT !.pc = "cmd_run"])
    /\ UNCHANGED <<steps, running, run_button, execution_start_index, command, result>>

\* _execute_sleep up to its wait: a scheduled wait needs its scheduled_time
\* and a time that parses; a plain sleep is time.sleep(seconds)
SleepStart(t) ==
    LET w == thr[t]
        params == w.step.params
        wait_type == Get(params, "wait_type", "sleep")
        scheduled_time == Get(params, "scheduled_time", None)
    IN
    /\ w.pc = "sleep"
    /\ IF wait_type # "scheduled"
       THEN thr' = With(t, Succeeded(Event(w, <<"sleep", Get(params, "seconds", 1)>>)))
       ELSE IF scheduled_time = None
       THEN thr' = With(t, Failed(w, <<"sleep_failed", "no_scheduled_time">>))
       ELSE IF ~TimeAccepted(scheduled_time)
       THEN thr' = With(t, Failed(w, <<"sleep_failed", "bad_time_format">>))
       ELSE \E remaining \in 0..MaxWait :
                thr' = With(t, [Event(w, <<"wait", scheduled_time>>) EXCEPT
                                    !.pc = "wait", !.remaining = remaining])
    /\ running' = IF thr'[t].outcome = "failed" THEN FALSE ELSE running
    /\ run_button' = IF thr'[t].outcome = "failed"
                     THEN update_execution_buttons(FALSE) ELSE run_button
    /\ UNCHANGED <<steps, execution_start_index, command, result>>

\* wait_completion = params.get("wait_completion", True)
WaitsForCompletionNever(params) == FALSE
WaitsForCompletion(params) == Get(params, "wait_completion", TRUE)

\* subprocess.run with its return code or timeout, or subprocess.Popen
CmdRun(t) ==
    LET w == thr[t]
        params == w.step.params
    IN
    /\ w.pc = "cmd_run"
    /\ IF WaitsForCompletion(params)
       THEN \E returned \in {"zero", "nonzero", "timeout"} :
                LET r == Event(w, <<"spawn", params.command, "run", returned>>) IN
                thr' = With(t,
                    CASE returned = "zero" -> Succeeded(r)
                      [] returned = "nonzero" -> Failed(r, <<"cmd_failed", "exit_code">>)
                      [] returned = "timeout" -> Failed(r, <<"cmd_timeout">>))
       ELSE thr' = With(t, Succeeded(Event(w, <<"spawn", params.command, "popen">>)))
    /\ running' = IF thr'[t].outcome = "failed" THEN FALSE ELSE running
    /\ run_button' = IF thr'[t].outcome = "failed"
                     THEN update_execution_buttons(FALSE) ELSE run_button
    /\ UNCHANGED <<steps, execution_start_index, command, result>>

CmdParams == {[command |-> c] : c \in CmdTexts}

CmdWaitParams == {NoParams, [wait_completion |-> TRUE], [wait_completion |-> FALSE]}

CmdTimes == {"09:30:00", "9:30:00", "noon", "09:30", "09:30:00:00", "ab:30:00", "24:00:00"}

CmdTimeParams == {NoParams} \cup {[scheduled_time |-> tm] : tm \in CmdTimes}

CmdPool ==
    {Step("cmd_command", p @@ wc @@ st @@ [timeout |-> 30], TRUE) :
        p \in CmdParams, wc \in CmdWaitParams, st \in CmdTimeParams}

SleepPool ==
    {Step("sleep", [wait_type |-> "sleep", seconds |-> 1], TRUE),
     Step("sleep", [wait_type |-> "scheduled"], TRUE)}
        \cup {Step("sleep", [wait_type |-> "scheduled", scheduled_time |-> tm], TRUE) :
                 tm \in {"09:30:00", "noon"}}

InitCmd ==
    /\ steps \in {<<s, PlainStep>> : s \in CmdPool \cup SleepPool}
                    \cup {<<s>> : s \in CmdPool}
    /\ running = FALSE
    /\ run_button = "normal"
    /\ execution_start_index = 0
    /\ thr = [t \in {1} |-> IdleThread]
    /\ command = None
    /\ result = NoResult

NextCmd ==
    \/ \E t \in DOMAIN thr : run_all_steps(t)
    \/ stop_execution
    \/ \E t \in DOMAIN thr : _execute_loop(t)
    \/ \E t \in DOMAIN thr : BuildPlan(t)
    \/ \E t \in DOMAIN thr : PlanEntry(t)
    \/ \E t \in DOMAIN thr : ExecReturn(t)
    \/ \E t \in DOMAIN thr : CmdStart(t)
    \/ \E t \in DOMAIN thr : SleepStart(t)
    \/ \E t \in DOMAIN thr : WaitTick(t)
    \/ \E t \in DOMAIN thr : WaitExit(t)
    \/ \E t \in DOMAIN thr : CmdRun(t)
    \/ \E t \in DOMAIN thr : LoopFinish(t)

SpecCmd == InitCmd /\ [][NextCmd]_vars

(***************************************************************************)
(* Claims about the run (checked under Spec and SpecEdit).                 *)
(***************************************************************************)
\* some repeat_start of ss has no matching repeat_end before ss ends
HasUnmatchedStart(ss) ==
    \E a \in 0..(Len(ss) - 1) :
        /\ IsStart(StepAt(ss, a))
        /\ \A j \in a..(Len(ss) - 1) : MarkerDepth(ss, a, j) > 0

\* the sequence worker t hands to the expander, and the offset of its indices
PlanWindow(t) ==
    IF thr[t].mode = "from" THEN StepsFrom(steps, execution_start_index)
    ELSE steps
PlanOffset(t) == IF thr[t].mode = "from" THEN execution_start_index ELSE 0

\* worker t is in a handler, i.e. a step has been dispatched and runs
InHandler(w) ==
    w.pc \in {"exec", "img_open", "img", "cmd", "sleep", "wait", "wait_exit", "cmd_run"}

C4_PlanStep ==
    \A t \in DOMAIN thr :
        (thr[t].pc = "plan" /\ thr'[t].pc # "plan"
            /\ HasUnmatchedStart(PlanWindow(t))) =>
                /\ thr'[t].outcome = "plan_error"
                /\ thr'[t].pc = "finish"
                /\ running' = FALSE

C4_NothingDispatched ==
    \A t \in DOMAIN thr :
        thr[t].outcome = "plan_error" =>
            /\ thr[t].executed = 0
            /\ thr[t].plan = <<>>
            /\ thr[t].pc \in {"finish", "done"}

\* C4: if the sequence handed to the expander holds a repeat_start with no
\* matching repeat_end, building the plan fails with the structural error,
\* the running flag is reset, and the run that asked for the plan
\* dispatches no step at all.
C4_UnbalancedLoop == [][C4_PlanStep]_vars /\ []C4_NothingDispatched

C4_Witness ==
    \E t \in DOMAIN thr :
        /\ thr[t].outcome = "plan_error"
        /\ thr[t].pc = "done"
        /\ thr[t].mode = "all"
        /\ HasUnmatchedStart(steps)
        /\ \E k \in DOMAIN steps : steps[k].type = "key" /\ steps[k].enabled

\* the next plan entry of worker w references a step that is disabled now
NextEntryDisabled(w) ==
    /\ w.pc = "entry"
    /\ w.pos <= Len(w.plan)
    /\ ~StepAt(steps, w.plan[w.pos][1]).enabled

C6_NoDispatch ==
    \A t \in DOMAIN thr :
        NextEntryDisabled(thr[t]) =>
            /\ thr'[t].executed = thr[t].executed
            /\ ~InHandler(thr'[t])
            /\ thr'[t].outcome # "failed"
            /\ thr'[t].entry = thr[t].entry

C6_KeepsSlot ==
    \A t \in DOMAIN thr :
        (thr[t].pc = "plan" /\ thr'[t].pc = "entry") =>
            \A k \in 0..(Len(PlanWindow(t)) - 1) :
                (~IsEnd(StepAt(PlanWindow(t), k))
                    /\ Enclosing(PlanWindow(t), k) = {}) =>
                        Occurrences(thr'[t].plan, k + PlanOffset(t)) = 1

IsCapture(e) == e[1] = "capture"
IsClick(e) == e[1] = "click"
Captures(w) == {i \in DOMAIN w.events : w.events[i][1] \in {"capture", "capture_error"}}
Clicks(w) == {i \in DOMAIN w.events : IsClick(w.events[i])}

\* the step the worker dispatched last is an image step
OnImageStep(w) == w.executed >= 1 /\ w.step.type \in ImageTypes

\* the handler of the worker's image step has returned or raised
ImageStepEnded(w) == OnImageStep(w) /\ w.pc \in {"entry", "finish", "done"}

\* C7: in an image step, a capture whose score is at least the threshold
\* (the threshold itself included) is followed at once by the click, is the
\* last capture of the step, and the step ends successfully; so a first
\* capture at the threshold is followed by the click.
C7_ClickOnMatch ==
    \A t \in DOMAIN thr :
        LET w == thr[t] IN
        OnImageStep(w) =>
            \A i \in DOMAIN w.events :
                (IsCapture(w.events[i]) /\ w.events[i][2] >= w.step.params.threshold) =>
                    /\ Len(w.events) = i + 1
                    /\ IsClick(w.events[i + 1])
                    /\ w.outcome # "failed"
                    /\ w.pc \in {"entry", "finish", "done"}
                    /\ w.pos = 2

\* every attempt of the ended image step captured a score below the
\* threshold, and the loop was not left for a cancellation
AllBelowThreshold(w) ==
    /\ ImageStepEnded(w)
    /\ ~w.broke
    /\ w.events # <<>>
    /\ \A i \in DOMAIN w.events :
           \/ w.events[i] = <<"decoded">>
           \/ IsCapture(w.events[i]) /\ w.events[i][2] < w.step.params.threshold

\* C8: an image step with retry = r whose attempts all score below the
\* threshold and that is not cancelled makes exactly r + 1 captures and no
\* click, then fails with the not-found error that names the image file;
\* the run halts: running is reset and no later entry is dispatched.
C8_NotFoundAfterRetries ==
    \A t \in DOMAIN thr :
        LET w == thr[t] IN
        /\ OnImageStep(w) => Cardinality(Captures(w)) <= w.step.params.retry + 1
        /\ AllBelowThreshold(w) =>
            /\ Cardinality(Captures(w)) = w.step.params.retry + 1
            /\ Clicks(w) = {}
            /\ w.outcome = "failed"
            /\ w.err = <<WrapError(w.step.type), "image_not_found", "ok.png">>
            /\ w.pc \in {"finish", "done"}
            /\ w.executed = 1
            /\ ~running

C8_Witness ==
    \E t \in DOMAIN thr :
        /\ AllBelowThreshold(thr[t])
        /\ thr[t].step.params.retry = 2
        /\ Cardinality(Captures(thr[t])) = 3
        /\ thr[t].pc = "done"

\* the restriction of C7 to the click types the handlers know
C7_ClickOnMatchKnownType ==
    \A t \in DOMAIN thr :
        LET w == thr[t] IN
        (OnImageStep(w)
            /\ Get(w.step.params, "click_type", DefaultClickType(w.step.type))
                   \in {"single", "double", "right"}) =>
            \A i \in DOMAIN w.events :
                (IsCapture(w.events[i]) /\ w.events[i][2] >= w.step.params.threshold) =>
                    /\ Len(w.events) = i + 1
                    /\ IsClick(w.events[i + 1])
                    /\ w.outcome # "failed"
                    /\ w.pos = 2

(***************************************************************************)
(* Claims about the command handler (checked under SpecCmd).               *)
(***************************************************************************)
OnCmdStep(w) == w.executed >= 1 /\ w.step.type = "cmd_command"

IsSpawn(e) == e[1] = "spawn"
IsWait(e) == e[1] = "wait"

\* the validator's verdict on the step's literal command is the first event
ValidatedFirst(w) ==
    /\ w.events[1][1] = "validate"
    /\ w.events[1][2] = w.step.params.command

\* C9: in a cmd_command step, with wait_completion true, false or absent,
\* nothing is spawned and no scheduled wait begins before the validator
\* has run on the literal command text; when the validator rejects the
\* command the step spawns nothing, waits for nothing and fails with the
\* unsafe-command error.
C9_ValidateBeforeSpawn ==
    \A t \in DOMAIN thr :
        LET w == thr[t] IN
        OnCmdStep(w) =>
            /\ (w.pc # "cmd") => (w.events # <<>> /\ ValidatedFirst(w))
            /\ \A i \in DOMAIN w.events :
                   (IsSpawn(w.events[i]) \/ IsWait(w.events[i])) =>
                       (i > 1 /\ ValidatedFirst(w) /\ w.events[1][3] = TRUE)
            /\ (w.events # <<>> /\ w.events[1][3] = FALSE) =>
                   /\ Len(w.events) = 1
                   /\ w.outcome = "failed"
                   /\ w.err = <<"cmd_failed", "unsafe_command">>
                   /\ w.pc \in {"finish", "done"}

\* a rejected fire-and-forget command with a scheduled time has failed
C9_Witness ==
    \E t \in DOMAIN thr :
        LET w == thr[t] IN
        /\ OnCmdStep(w)
        /\ w.pc = "done"
        /\ w.step.params.command = "Shutdown /r /f"
        /\ Get(w.step.params, "wait_completion", TRUE) = FALSE
        /\ Get(w.step.params, "scheduled_time", None) = "09:30:00"
        /\ w.events = <<<<"validate", "Shutdown /r /f", FALSE>>>>
        /\ w.err = <<"cmd_failed", "unsafe_command">>

(***************************************************************************)
(* The run with two start requests: F5 and F7 call run_all_steps and       *)
(* run_from_selected whatever the state of the buttons.                    *)
(***************************************************************************)
InitDual ==
    /\ steps \in SeqsUpTo(RunPool, MaxSteps)
    /\ running = FALSE
    /\ run_button = "normal"
    /\ execution_start_index = 0
    /\ thr = [t \in {1, 2} |-> IdleThread]
    /\ command = None
    /\ result = NoResult

SpecDual == InitDual /\ [][Next]_vars

\* worker w is walking a plan: at a plan entry or inside a handler
ExecutingPlan(w) == w.pc = "entry" \/ InHandler(w)

\* C11: a start request made while a run is active is rejected, so at most
\* one worker thread is executing a plan in any reachable state.
C11_SingleWorker ==
    Cardinality({t \in DOMAIN thr : ExecutingPlan(thr[t])}) <= 1

\* worker t dispatches a plan entry in this step
Dispatches(t) == thr[t].pc = "entry" /\ thr'[t].executed = thr[t].executed + 1

C12_NoDispatchAfterStop ==
    \A t \in DOMAIN thr : Dispatches(t) => running

\* a worker that leaves its plan with the flag cleared ends as cancelled,
\* unless the step in progress failed for a reason other than the stop
C12_EndsCancelled ==
    \A t \in DOMAIN thr :
        (ExecutingPlan(thr[t]) /\ ~running /\ thr'[t].pc = "finish") =>
            \/ thr'[t].outcome = "cancelled"
            \/ thr'[t].outcome = "failed" /\ ~thr'[t].broke

\* C12: once the running flag is cleared during a run, the worker
\* dispatches no further plan entry, and when it leaves the plan the run
\* ends as cancelled.
C12_CancelStops == [][C12_NoDispatchAfterStop /\ C12_EndsCancelled]_vars

\* the first half of C12 alone
C12_DispatchOnlyWhileRunning == [][C12_NoDispatchAfterStop]_vars

(***************************************************************************)
(* Claims about failures and the end of a run (checked under Spec).        *)
(***************************************************************************)
C13_FailureState ==
    \A t \in DOMAIN thr :
        LET w == thr[t] IN
        w.outcome = "failed" =>
            /\ w.pc \in {"finish", "done"}
            /\ w.row = w.plan[w.pos][1] + 1
            /\ w.row \in 1..Len(steps)
            /\ StepAt(steps, w.row - 1) = w.step

C13_FailureStep ==
    \A t \in DOMAIN thr :
        /\ (thr[t].outcome # "failed" /\ thr'[t].outcome = "failed") =>
               (InHandler(thr[t]) \/ Dispatches(t)) /\ running' = FALSE
        /\ thr[t].outcome = "failed" =>
               /\ thr'[t].executed = thr[t].executed
               /\ thr'[t].pos = thr[t].pos
               /\ thr'[t].outcome = "failed"
               /\ ~ExecutingPlan(thr'[t])

\* C13: when a handler fails the worker leaves its plan at once and
\* dispatches no later entry, running is set to false in the same step, and
\* the row reported for the failure is the failed entry's index in the full
\* step sequence (plus one, as rows are numbered).
C13_HaltOnFailure == [][C13_FailureStep]_vars /\ []C13_FailureState

\* a run from the second step failed on its first entry, with one to go
C13_Witness ==
    \E t \in DOMAIN thr :
        LET w == thr[t] IN
        /\ w.outcome = "failed"
        /\ w.pc = "done"
        /\ w.mode = "from"
        /\ w.pos = 1
        /\ w.row = 2
        /\ w.executed = 1
        /\ w.err = <<"key", "primitive_failed">>
        /\ Len(w.plan) > w.pos

\* C14: a run is reported as completed (completion status and completion
\* notification) only if its whole plan was consumed with no failure and no
\* cancellation.
C14_CompletedOnlyIfConsumed ==
    \A t \in DOMAIN thr :
        thr[t].reported =>
            /\ thr[t].outcome = "completed"
            /\ thr[t].pos > Len(thr[t].plan)

(***************************************************************************)
(* The run under a fair scheduler: one worker, every kind of step, and     *)
(* every primitive returning.                                              *)
(***************************************************************************)
LiveWorkers == {1}

InitLive ==
    /\ steps \in SeqsUpTo(RunPool, MaxSteps)
                    \cup {<<s, PlainStep>> : s \in ImgPool \cup CmdPool}
    /\ running = FALSE
    /\ run_button = "normal"
    /\ execution_start_index = 0
    /\ thr = [t \in LiveWorkers |-> IdleThread]
    /\ command = None
    /\ result = NoResult

\* a step of worker thread t
WorkerStep(t) ==
    \/ _execute_loop(t)
    \/ BuildPlan(t)
    \/ PlanEntry(t)
    \/ ExecReturn(t)
    \/ ImgPrepare(t)
    \/ ImgAttempt(t)
    \/ CmdStart(t)
    \/ WaitTick(t)
    \/ WaitExit(t)
    \/ CmdRun(t)
    \/ LoopFinish(t)

NextLive ==
    \/ \E t \in DOMAIN thr : run_all_steps(t)
    \/ \E t \in DOMAIN thr : \E k \in 0..(MaxSteps - 1) : run_from_selected(t, k)
    \/ stop_execution
    \/ \E t \in DOMAIN thr : WorkerStep(t)

SpecLive ==
    /\ InitLive
    /\ [][NextLive]_vars
    /\ \A t \in LiveWorkers : WF_vars(WorkerStep(t))

C15_RunEnds ==
    \A t \in LiveWorkers : (thr[t].pc = "loop") ~> (thr[t].pc = "done")

C15_ReturnStep ==
    \A t \in DOMAIN thr :
        (thr[t].pc # "done" /\ thr'[t].pc = "done") =>
            /\ running' = FALSE
            /\ run_button' = "normal"

\* C15: every started run ends, and the step in which the worker returns
\* leaves running false and the run button enabled.
C15_EndsAndIdle == C15_RunEnds /\ [][C15_ReturnStep]_vars

\* the second half of C15 alone
C15_ReturnsIdle == [][C15_ReturnStep]_vars

\* a run started with the run button has consumed its plan and returned
C15_Witness ==
    \E t \in DOMAIN thr :
        /\ thr[t].pc = "done"
        /\ thr[t].mode = "all"
        /\ thr[t].outcome = "completed"
        /\ thr[t].executed = 2
        /\ ~running
        /\ run_button = "normal"

(***************************************************************************)
(* Claims about the order of dispatch (checked under Spec).                *)
(***************************************************************************)
\* the plan entries the worker's loop has gone through, the one in
\* progress or failed included
Considered(w) ==
    IF InHandler(w) \/ w.outcome = "failed" THEN w.pos
    ELSE IF w.pc = "entry" \/ w.outcome \in {"completed", "cancelled"} THEN w.pos - 1
    ELSE 0

EntryEnabled(e) == StepAt(steps, e[1]).enabled

\* C16: the entries a worker has dispatched are exactly the entries of its
\* plan gone through so far that reference enabled steps, in plan order and
\* once each.
C16_DispatchOrder ==
    \A t \in DOMAIN thr :
        LET w == thr[t] IN
        /\ w.pos <= Len(w.plan) + 1
        /\ w.log = SelectSeq(SubSeq(w.plan, 1, Considered(w)), EntryEnabled)

\* a run over a loop of two rounds has dispatched all five entries
C16_Witness ==
    \E t \in DOMAIN thr :
        /\ thr[t].outcome = "completed"
        /\ Len(thr[t].plan) = 5
        /\ thr[t].log = thr[t].plan
        /\ thr[t].log[2][1] = thr[t].log[4][1]

(***************************************************************************)
(* The head of _wait_for_scheduled_time: the target and the wait.  A       *)
(* datetime is a record of day, hour, minute, second and the fraction of   *)
(* the second in ticks (milliseconds; the code's datetimes carry           *)
(* microseconds).                                                          *)
(***************************************************************************)
TicksPerSecond == 1000

\* the number a two-digit part at position i of an "HH:MM:SS" text reads as
IntOf(text, i) == 10 * (Ord(CharAt(text, i)) - 48) + (Ord(CharAt(text, i + 1)) - 48)

\* position of a datetime on the time line, in ticks
Ticks(dt) ==
    (((dt.day * 24 + dt.hour) * 60 + dt.minute) * 60 + dt.second) * TicksPerSecond
        + dt.tick

\* if target_today <= now: target_today += timedelta(days=1)
TargetPassedStrictly(target_today, now) == Ticks(target_today) < Ticks(now)
TargetPassed(target_today, now) == Ticks(target_today) <= Ticks(now)

\* the outcome of the head of _wait_for_scheduled_time at clock reading now
ScheduledWait(scheduled_time, now) ==
    IF ~WellFormedTime(scheduled_time)
    THEN [ok |-> FALSE, now |-> now]
    ELSE LET target_hour == IntPart(scheduled_time, 1)
             target_minute == IntPart(scheduled_time, 2)
             target_second == IntPart(scheduled_time, 3)
             target_today == [now EXCEPT !.hour = target_hour, !.minute = target_minute,
                                         !.second = target_second, !.tick = 0]
             target == IF TargetPassed(target_today, now)
                       THEN [target_today EXCEPT !.day = @ + 1]
                       ELSE target_today
             wait_ticks == Ticks(target) - Ticks(now)
         IN  IF ~ReplaceOk(target_hour, target_minute, target_second)
             THEN [ok |-> FALSE, now |-> now]
             ELSE [ok |-> TRUE, now |-> now, target |-> target,
                   wait_ticks |-> wait_ticks,
                   remaining |-> wait_ticks \div TicksPerSecond]

TimeTexts ==
    {"00:00:00", "00:00:01", "09:30:00", "12:00:00", "23:59:59",
     "24:00:00", "12:60:00", "12:00:60", "-1:00:00", "09:30", "09:30:00:00",
     "ab:30:00", "09::00", "noon"}

ClockTimes ==
    {<<0, 0, 0>>, <<0, 0, 1>>, <<9, 29, 59>>, <<9, 30, 0>>, <<9, 30, 1>>,
     <<12, 0, 0>>, <<23, 59, 58>>, <<23, 59, 59>>}

Clock ==
    {[day |-> 0, hour |-> c[1], minute |-> c[2], second |-> c[3], tick |-> k] :
        c \in ClockTimes, k \in {0, 1, TicksPerSecond - 1}}

InitWait ==
    /\ steps = <<>>
    /\ running = TRUE
    /\ run_button = "normal"
    /\ execution_start_index = 0
    /\ thr = NoThreads
    /\ command \in TimeTexts
    /\ result = NoResult

\* datetime.now() is read, the target and the wait are computed
ComputeWait ==
    /\ result.op = None
    /\ \E now \in Clock : result' = Returned("wait", ScheduledWait(command, now))
    /\ UNCHANGED <<steps, running, run_button, execution_start_index, thr, command>>

NextWait == ComputeWait

SpecWait == InitWait /\ [][NextWait]_vars

\* time of day in ticks
TimeOfDay(dt) == Ticks([dt EXCEPT !.day = 0])
DayTicks == 24 * 60 * 60 * TicksPerSecond

WaitComputed == result.op = "wait" /\ result.val.ok

\* C17: a target at or before the current time of day is moved to the same
\* time on the following day, a later one stays on the day; the wait is
\* the distance to it, more than zero and at most 24 hours.
C17_ScheduledWait ==
    WaitComputed =>
        LET now == result.val.now
            target == result.val.target
            wait == result.val.wait_ticks
        IN  /\ TimeOfDay(target) =
                 (IntOf(command, 1) * 3600 + IntOf(command, 4) * 60 + IntOf(command, 7))
                     * TicksPerSecond
            /\ target.day = IF TimeOfDay(target) <= TimeOfDay(now)
                            THEN now.day + 1 ELSE now.day
            /\ wait = IF TimeOfDay(target) <= TimeOfDay(now)
                      THEN DayTicks - (TimeOfDay(now) - TimeOfDay(target))
                      ELSE TimeOfDay(target) - TimeOfDay(now)
            /\ wait > 0
            /\ wait <= DayTicks

\* the target equals the clock reading: the wait is a whole day
C17_Witness ==
    /\ WaitComputed
    /\ command = "09:30:00"
    /\ TimeOfDay(result.val.now) = TimeOfDay(result.val.target)
    /\ result.val.target.day = 1
    /\ result.val.remaining = 86400

\* worker t runs from the selected step and has built its plan;
\* thr[t].start_index is the argument start_index it passed to
\* _execute_steps_for_monitor_from_index
RunsFromSelected(t) ==
    /\ thr[t].mode = "from"
    /\ thr[t].pc \notin {"idle", "loop", "plan"}
    /\ thr[t].pos >= 1

\* the plan of the sequence ss taken on its own, its indices moved by k
ShiftedPlan(ss, k) ==
    LET own == _generate_execution_plan(ss).plan
    IN  [p \in DOMAIN own |-> Entry(own[p][1] + k, own[p][2])]

\* C18: a run from the selected step k executes the plan of steps[k:], each
\* entry carrying the index in the whole sequence (k <= index < number of
\* steps); the step dispatched for an entry and the row of a failure report
\* are the step and the row at that index.
C18_SuffixPlan ==
    \A t \in DOMAIN thr :
        RunsFromSelected(t) =>
            LET w == thr[t]
                k == w.start_index
            IN  /\ w.plan = ShiftedPlan(StepsFrom(steps, k), k)
                /\ \A p \in DOMAIN w.plan :
                       k <= w.plan[p][1] /\ w.plan[p][1] < Len(steps)
                /\ w.executed > 0 =>
                       /\ w.entry = w.log[Len(w.log)]
                       /\ w.step = StepAt(steps, w.entry[1])
                /\ w.outcome = "failed" => w.row = w.entry[1] + 1

\* a run from the second step has dispatched the third step inside an
\* iteration of the loop the second step opens
C18_Witness ==
    \E t \in DOMAIN thr :
        /\ RunsFromSelected(t)
        /\ thr[t].start_index = 1
        /\ thr[t].executed >= 2
        /\ thr[t].entry[1] = 2
        /\ thr[t].entry[2] > 0

(***************************************************************************)
(* Structural edits of the step sequence by the foreground thread.  None   *)
(* of the handlers reads self.running.  The undo history and the tree      *)
(* widget they also update are outside the state modelled here.            *)
(***************************************************************************)
\* ss without the rows of the selection
WithoutRows(ss, selected) ==
    LET F[i \in 0..Len(ss)] ==
            IF i = 0 THEN <<>>
            ELSE IF (i - 1) \in selected THEN F[i - 1]
            ELSE Append(F[i - 1], ss[i])
    IN  F[Len(ss)]

\* list.insert(index, x)
InsertAt(ss, index, x) ==
    SubSeq(ss, 1, index) \o <<x>> \o SubSeq(ss, index + 1, Len(ss))

\* delete_selected: every selected row is popped from self.steps
delete_selected(selected) ==
    /\ selected # {}
    /\ selected \subseteq 0..(Len(steps) - 1)
    /\ steps' = WithoutRows(steps, selected)
    /\ UNCHANGED <<running, run_button, execution_start_index, thr, command, result>>

\* move_step: pop at from_index, insert at to_index
move_step(from_index, to_index) ==
    /\ from_index \in 0..(Len(steps) - 1)
    /\ to_index \in 0..(Len(steps) - 1)
    /\ steps' = InsertAt(WithoutRows(steps, {from_index}), to_index,
                         StepAt(steps, from_index))
    /\ UNCHANGED <<running, run_button, execution_start_index, thr, command, result>>

StructPool == {Step("key", [key |-> "enter"], TRUE), Step("key", [key |-> "tab"], TRUE)}

InitStruct ==
    /\ steps \in SeqsUpTo(StructPool, MaxSteps)
    /\ running = FALSE
    /\ run_button = "normal"
    /\ execution_start_index = 0
    /\ thr = [t \in {1} |-> IdleThread]
    /\ command = None
    /\ result = NoResult

NextStruct ==
    \/ Next
    \/ \E selected \in SUBSET (0..(MaxSteps - 1)) : delete_selected(selected)
    \/ \E from_index, to_index \in 0..(MaxSteps - 1) : move_step(from_index, to_index)

SpecStruct == InitStruct /\ [][NextStruct]_vars

\* C19: the step dispatched for a plan entry (i, level) is the step that was
\* at index i when the plan was built.
C19_DispatchesPlannedStep ==
    \A t \in DOMAIN thr :
        thr[t].executed > 0 =>
            Contents(<<thr[t].step>>)[1] = StepAt(thr[t].built_from, thr[t].entry[1])

(***************************************************************************)
(* Loading a configuration file: _validate_config_structure, load_config.  *)
(* A step of the file is a dict, here a record whose domain is the set of  *)
(* its keys.  Values that are not of the JSON type the code expects are    *)
(* outside the files considered.                                           *)
(***************************************************************************)
valid_types ==
    {"image_click", "coord_click", "coord_drag", "image_right_click",
     "image_relative_right_click", "sleep", "custom_text", "cmd", "cmd_command",
     "key_action", "key", "copy", "paste", "repeat_start", "repeat_end"}

\* the checks made on one step of the file
StepStructureOk(step) ==
    /\ "type" \in DOMAIN step /\ "params" \in DOMAIN step
    /\ step.type \in valid_types

_validate_config_structure(config) ==
    \A i \in DOMAIN config : StepStructureOk(config[i])

\* the fields of the dataclass
StepFields == {"type", "params", "comment", "created_at", "enabled"}

\* Step(**step_data): type, params and comment have no default, and a
\* keyword that is not a field raises TypeError
StepArgsOk(step_data) ==
    /\ {"type", "params", "comment"} \subseteq DOMAIN step_data
    /\ DOMAIN step_data \subseteq StepFields

\* the Step built from a step of the file, after the repair of an
\* image_click without click_type
StepFromData(step_data) ==
    LET params == IF step_data.type = "image_click"
                     /\ "click_type" \notin DOMAIN step_data.params
                  THEN [k \in DOMAIN step_data.params \cup {"click_type"} |->
                           IF k = "click_type" THEN "single" ELSE step_data.params[k]]
                  ELSE step_data.params
    IN  Step(step_data.type, params,
             IF "enabled" \in DOMAIN step_data THEN step_data.enabled ELSE TRUE)

\* the longest list of steps in a file
MaxConfigSteps == 2

ConfigPool ==
    {[type |-> "key", params |-> [key |-> "enter"], comment |-> ""],
     [type |-> "key", params |-> [key |-> "enter"], comment |-> "", enabled |-> FALSE],
     [type |-> "repeat_start", params |-> [count |-> 2], comment |-> ""],
     [type |-> "repeat_start", params |-> [count |-> 0], comment |-> ""],
     [type |-> "repeat_end", params |-> NoParams, comment |-> ""],
     [type |-> "image_click", params |-> [path |-> "a.png"], comment |-> ""],
     [type |-> "bogus", params |-> NoParams, comment |-> ""],
     [type |-> "key", comment |-> ""],
     [type |-> "key", params |-> [key |-> "enter"]]}

InitLoad ==
    /\ steps = <<>>
    /\ running = FALSE
    /\ run_button = "normal"
    /\ execution_start_index = 0
    /\ thr = NoThreads
    /\ command = None
    /\ result = NoResult

\* what a call of load_config did with the file whose steps are config
Loaded(status, config) == [status |-> status, config |-> config]

\* load_config of a file whose steps are config
load_config(config) ==
    /\ IF ~_validate_config_structure(config)
       THEN /\ result' = Returned("load_config", Loaded("structure_error", config))
            /\ UNCHANGED steps
       ELSE IF \E i \in DOMAIN config : ~StepArgsOk(config[i])
       THEN /\ result' = Returned("load_config", Loaded("TypeError", config))
            /\ UNCHANGED steps
       ELSE /\ steps' = [i \in DOMAIN config |-> StepFromData(config[i])]
            /\ result' = Returned("load_config", Loaded("loaded", config))
    /\ UNCHANGED <<running, run_button, execution_start_index, thr, command>>

\* the loaded sequence is handed to the expander
GeneratePlan ==
    /\ result.op = "load_config"
    /\ result' = Returned("_generate_execution_plan", _generate_execution_plan(steps))
    /\ UNCHANGED <<steps, running, run_button, execution_start_index, thr, command>>

NextLoad ==
    \/ \E config \in SeqsUpTo(ConfigPool, MaxConfigSteps) : load_config(config)
    \/ GeneratePlan

SpecLoad == InitLoad /\ [][NextLoad]_vars

\* the parameters the add dialogs require of a step of the kinds loaded here
RequiredParamsOk(step) ==
    CASE step.type = "repeat_start" ->
             "count" \in DOMAIN step.params /\ step.params.count >= 1
      [] step.type = "key" -> "key" \in DOMAIN step.params
      [] step.type = "image_click" ->
             {"path", "threshold", "click_type", "retry", "delay"} \subseteq DOMAIN step.params
      [] OTHER -> TRUE

\* C20: every step of the sequence has a recognized kind and the parameters
\* its kind requires, within range; every repeat_start of a sequence handed
\* to the expander has count >= 1.
C20_StepsWellFormed ==
    /\ \A i \in DOMAIN steps :
           steps[i].type \in valid_types /\ RequiredParamsOk(steps[i])
    /\ result.op = "_generate_execution_plan" =>
           \A i \in DOMAIN steps :
               steps[i].type = "repeat_start" => Get(steps[i].params, "count", 1) >= 1

(***************************************************************************)
(* Legacy image_click steps: records and steps without click_type.         *)
(***************************************************************************)
LegacyParams(r) == [path |-> "img/ok.png", threshold |-> ImgThreshold, retry |-> r, delay |-> 1]

\* image_click steps handed to _execute_image_click, with and without
\* click_type
LegacyImgPool ==
    {Step("image_click", LegacyParams(r), TRUE) : r \in 0..MaxRetry}
    \cup {Step("image_click",
               [path |-> "img/ok.png", threshold |-> ImgThreshold,
                click_type |-> "double", retry |-> 0, delay |-> 1], TRUE)}

\* step records of a file
LegacyConfigPool ==
    {[type |-> "image_click", params |-> LegacyParams(1), comment |-> ""],
     [type |-> "image_click", params |-> LegacyParams(1), comment |-> "",
      enabled |-> FALSE],
     [type |-> "image_click",
      params |-> [path |-> "img/ok.png", threshold |-> ImgThreshold,
                  click_type |-> "double", retry |-> 0, delay |-> 1],
      comment |-> ""],
     [type |-> "image_click", params |-> LegacyParams(1)]}

\* files of one record, and of a record with and without click_type
LegacyFiles ==
    {<<rec>> : rec \in LegacyConfigPool}
    \cup {<<a, b>> : a \in {rec \in LegacyConfigPool : "comment" \in DOMAIN rec},
                     b \in {rec \in LegacyConfigPool : "enabled" \in DOMAIN rec}}

InitLegacy ==
    /\ steps \in {<<s, PlainStep>> : s \in LegacyImgPool}
    /\ running = FALSE
    /\ run_button = "normal"
    /\ execution_start_index = 0
    /\ thr = [t \in {1} |-> IdleThread]
    /\ command = None
    /\ result = NoResult

NextLegacy ==
    \/ NextImg
    \/ \E config \in LegacyFiles : load_config(config)

SpecLegacy == InitLegacy /\ [][NextLegacy]_vars

\* an image_click without click_type
LacksClickType(type, params) == type = "image_click" /\ "click_type" \notin DOMAIN params

\* a record with everything a step needs, click_type apart
CompleteRecord(rec) ==
    {"type", "params", "comment"} \subseteq DOMAIN rec /\ rec.type \in valid_types

\* the last call of load_config loaded a file of complete records
LoadedLegacyFile ==
    /\ result.op = "load_config"
    /\ \A i \in DOMAIN result.val.config : CompleteRecord(result.val.config[i])

\* C21: a file of complete records is loaded, an image_click record without
\* click_type becoming a step with click_type "single" and its other
\* parameters kept; an image_click step without click_type dispatched to
\* its handler clicks with a single click, and does so on a match.
C21_LegacyClickType ==
    /\ LoadedLegacyFile =>
           LET config == result.val.config IN
           /\ result.val.status = "loaded"
           /\ Len(steps) = Len(config)
           /\ \A i \in DOMAIN config :
                  LacksClickType(config[i].type, config[i].params) =>
                      /\ steps[i].type = "image_click"
                      /\ steps[i].params.click_type = "single"
                      /\ \A k \in DOMAIN config[i].params :
                             steps[i].params[k] = config[i].params[k]
    /\ \A t \in DOMAIN thr :
           LET w == thr[t] IN
           (w.executed >= 1 /\ LacksClickType(w.step.type, w.step.params)) =>
               \A i \in DOMAIN w.events :
                   /\ IsClick(w.events[i]) => w.events[i] = <<"click", "single">>
                   /\ (IsCapture(w.events[i]) /\ w.events[i][2] >= w.step.params.threshold) =>
                          /\ Len(w.events) = i + 1
                          /\ w.events[i + 1] = <<"click", "single">>
                          /\ w.outcome # "failed"

\* a step without click_type has been executed with a single click, and a
\* file with a record without click_type has then been loaded
C21_Witness ==
    /\ LoadedLegacyFile
    /\ \E i \in DOMAIN result.val.config :
           LacksClickType(result.val.config[i].type, result.val.config[i].params)
    /\ \E t \in DOMAIN thr :
           /\ LacksClickType(thr[t].step.type, thr[t].step.params)
           /\ Clicks(thr[t]) # {}
           /\ thr[t].pc = "done"

(***************************************************************************)
(* analyze_error: the category of a failure, found from the text of its    *)
(* message.  The Japanese phrases of the messages are written as ASCII     *)
(* glosses, one per phrase: "image not found" for the phrase the first     *)
(* test looks for, "file read failed", "key operation", "coordinate" and   *)
(* "screenshot" for the others; "click" is looked for as written.          *)
(***************************************************************************)
\* sub in text
Contains(text, sub) ==
    \E i \in 1..(Len(text) - Len(sub) + 1) : SubSeq(text, i, i + Len(sub) - 1) = sub

\* analysis["category"], None when no branch sets the key
analyze_error(message) ==
    LET error_str == LowerStr(message) IN
    IF Contains(message, "image not found") THEN "image_search"
    ELSE IF Contains(message, "file read failed") THEN "file"
    ELSE IF Contains(message, "key operation") THEN "keyboard"
    ELSE IF Contains(message, "coordinate") \/ Contains(error_str, "click") THEN "mouse"
    ELSE IF Contains(message, "screenshot") THEN "capture"
    ELSE None

\* the failures the handlers raise, each with its kind
Failure(kind, message) == [kind |-> kind, message |-> message]

ImageNotFoundFailures ==
    {Failure("image_not_found", wrap \o "image not found: " \o name) :
        wrap \in {"image tap failed: ", "image right tap failed: "},
        name \in {"ok.png", "button.png"}}

SecurityFailures ==
    {Failure("security_rejected",
             "cmd command failed: unsafe command detected: " \o c \o "...") :
        c \in {c \in CmdTexts : ~CommandIsSafe(c)}}

TimeoutFailures ==
    {Failure("timeout", "command timed out (" \o seconds \o "s)") :
        seconds \in {"5", "30"}}

GenericFailures ==
    {Failure("generic", "cmd command failed: command failed (exit code: 1)"),
     Failure("generic", "wait failed: scheduled wait parameters missing"),
     Failure("generic", "custom text input failed: "),
     Failure("generic", "key operation failed: "),
     Failure("generic", "coordinate drag failed: ")}

Failures == ImageNotFoundFailures \cup SecurityFailures \cup TimeoutFailures \cup GenericFailures

Analysed(f) ==
    [kind |-> f.kind, message |-> f.message, category |-> analyze_error(f.message)]

InitErr ==
    /\ steps = <<>>
    /\ running = FALSE
    /\ run_button = "normal"
    /\ execution_start_index = 0
    /\ thr = NoThreads
    /\ command = None
    /\ result = NoResult

\* two runs halt on a failure, and each failure is analysed
AnalyseFailures ==
    /\ result.op = None
    /\ \E f \in Failures, g \in Failures :
           result' = Returned("analyze_error", <<Analysed(f), Analysed(g)>>)
    /\ UNCHANGED <<steps, running, run_button, execution_start_index, thr, command>>

NextErr == AnalyseFailures

SpecErr == InitErr /\ [][NextErr]_vars

\* C22: two failures of different kinds among image-not-found,
\* security-rejected command, command timeout and generic never receive the
\* same category.
C22_DistinctCategories ==
    result.op = "analyze_error" =>
        (result.val[1].kind # result.val[2].kind =>
            result.val[1].category # result.val[2].category)

(***************************************************************************)
(* Saving and loading with every field of a step: save_config writes       *)
(* step.__dict__, load_config builds a Step from the keys of a record.     *)
(***************************************************************************)
\* datetime.now().isoformat() at the time of the load
Now == "2025-01-01T00:00:00"

\* Step(**step_data) with its defaults and __post_init__, after the repair
\* of an image_click without click_type
StepObject(step_data) ==
    [type |-> step_data.type,
     params |-> StepFromData(step_data).params,
     comment |-> step_data.comment,
     created_at |-> IF "created_at" \in DOMAIN step_data /\ step_data.created_at # ""
                    THEN step_data.created_at ELSE Now,
     enabled |-> StepFromData(step_data).enabled]

\* "steps": [step.__dict__ for step in self.steps]
save_config(ss) == [i \in DOMAIN ss |-> [k \in StepFields |-> ss[i][k]]]

\* the steps load_config makes of a file, and whether it does
LoadFile(file) ==
    IF ~_validate_config_structure(file) THEN [status |-> "structure_error"]
    ELSE IF \E i \in DOMAIN file : ~StepArgsOk(file[i]) THEN [status |-> "TypeError"]
    ELSE [status |-> "loaded", steps |-> [i \in DOMAIN file |-> StepObject(file[i])]]

\* steps in memory
SavedStepPool ==
    {[type |-> "key", params |-> [key |-> "enter"], comment |-> c,
      created_at |-> "2024-05-01T10:00:00", enabled |-> en] :
        c \in {"", "press enter"}, en \in BOOLEAN}
    \cup
    {[type |-> "repeat_start", params |-> [count |-> 2], comment |-> "",
      created_at |-> "2024-05-01T10:00:01", enabled |-> TRUE],
     [type |-> "repeat_end", params |-> NoParams, comment |-> "",
      created_at |-> "2024-05-01T10:00:02", enabled |-> TRUE],
     [type |-> "image_click",
      params |-> [path |-> "img/ok.png", threshold |-> ImgThreshold,
                  click_type |-> "double", retry |-> 0, delay |-> 1],
      comment |-> "", created_at |-> "2024-05-01T10:00:03", enabled |-> TRUE]}

\* records of files written by other versions or by hand
ForeignRecordPool ==
    {[type |-> "key", params |-> [key |-> "enter"], comment |-> ""],
     [type |-> "key", params |-> [key |-> "enter"], comment |-> "", enabled |-> FALSE],
     [type |-> "key", params |-> [key |-> "enter"], comment |-> "",
      created_at |-> "2023-01-01T00:00:00"],
     [type |-> "key", params |-> [key |-> "enter"], comment |-> "", group |-> "login"],
     [type |-> "sleep", params |-> [seconds |-> 1], comment |-> "", version |-> 1],
     [type |-> "repeat_end", params |-> NoParams, comment |-> "",
      created_at |-> "2023-01-01T00:00:00", enabled |-> TRUE, color |-> "red"],
     [type |-> "image_click", params |-> LegacyParams(1), comment |-> ""]}

InitSave ==
    /\ steps = <<>>
    /\ running = FALSE
    /\ run_button = "normal"
    /\ execution_start_index = 0
    /\ thr = NoThreads
    /\ command = None
    /\ result = NoResult

\* the steps ss are saved and the file is loaded back
SaveThenLoad ==
    /\ result.op = None
    /\ \E ss \in SeqsUpTo(SavedStepPool, MaxConfigSteps) :
           result' = Returned("save_load",
                              [before |-> ss, after |-> LoadFile(save_config(ss))])
    /\ UNCHANGED <<steps, running, run_button, execution_start_index, thr, command>>

\* a file is loaded and, when it was, the steps are saved again
LoadThenSave ==
    /\ result.op = None
    /\ \E file \in SeqsUpTo(ForeignRecordPool, MaxConfigSteps) :
           LET loaded == LoadFile(file) IN
           result' = Returned("load_save",
                              [file |-> file, status |-> loaded.status,
                               saved |-> IF loaded.status = "loaded"
                                         THEN save_config(loaded.steps) ELSE <<>>])
    /\ UNCHANGED <<steps, running, run_button, execution_start_index, thr, command>>

NextSave == SaveThenLoad \/ LoadThenSave

SpecSave == InitSave /\ [][NextSave]_vars

\* C23: saving steps and loading the file back yields the same steps, field
\* for field and in order; a file whose records carry unknown or legacy
\* fields is loaded, and a later save has every field and every parameter
\* of every record with its value.
C23_RoundTrip ==
    /\ result.op = "save_load" =>
           /\ result.val.after.status = "loaded"
           /\ result.val.after.steps = result.val.before
    /\ result.op = "load_save" =>
           /\ result.val.status = "loaded"
           /\ Len(result.val.saved) = Len(result.val.file)
           /\ \A i \in DOMAIN result.val.file :
                  \A k \in DOMAIN result.val.file[i] :
                      /\ k \in DOMAIN result.val.saved[i]
                      /\ IF k = "params"
                         THEN \A q \in DOMAIN result.val.file[i].params :
                                  /\ q \in DOMAIN result.val.saved[i].params
                                  /\ result.val.saved[i].params[q]
                                         = result.val.file[i].params[q]
                         ELSE result.val.saved[i][k] = result.val.file[i][k]

\* the half of C23 about files the program wrote itself
C23_SavedRoundTrip ==
    result.op = "save_load" =>
        /\ result.val.after.status = "loaded"
        /\ result.val.after.steps = result.val.before

(***************************************************************************)
(* More claims about the expander (checked under SpecPlan).                *)
(***************************************************************************)
\* the repeat_end that closes the repeat_start at a, if there is one
ClosedAt(ss, a, j) ==
    /\ a < j
    /\ MarkerDepth(ss, a, j) = 0
    /\ \A k \in a..(j - 1) : MarkerDepth(ss, a, k) > 0

\* steps[j] is a repeat_end that closes no repeat_start
OrphanEnd(ss, j) ==
    /\ IsEnd(StepAt(ss, j))
    /\ \A a \in 0..(j - 1) : IsStart(StepAt(ss, a)) => ~ClosedAt(ss, a, j)

\* the plan with the indices from j on moved up by one
ShiftFrom(plan, j) ==
    [p \in DOMAIN plan |-> Entry(IF plan[p][1] >= j THEN plan[p][1] + 1 ELSE plan[p][1],
                                 plan[p][2])]

\* C24: an orphan repeat_end contributes no plan entry and raises no error,
\* and the other steps are expanded as if it were not there: the outcome is
\* that of the sequence without it, with the indices after it moved by one.
C24_OrphanEnd ==
    Expanded =>
        \A j \in 0..(Len(steps) - 1) :
            OrphanEnd(steps, j) =>
                LET without == _generate_execution_plan(WithoutRows(steps, {j})) IN
                /\ result.val.ok = without.ok
                /\ result.val.ok =>
                       /\ Occurrences(result.val.plan, j) = 0
                       /\ result.val.plan = ShiftFrom(without.plan, j)
                /\ ~result.val.ok =>
                       result.val.at = IF without.at >= j THEN without.at + 1 ELSE without.at

\* [A, repeat_end, repeat_start(2), B, repeat_end]: the first repeat_end is
\* an orphan
C24_Witness ==
    /\ Expanded
    /\ steps = <<PlainStep, RepeatEnd, RepeatStart(2), PlainStep, RepeatEnd>>
    /\ OrphanEnd(steps, 1)
    /\ ~OrphanEnd(steps, 4)
    /\ result.val.ok
    /\ PlanIndices(result.val.plan) = <<0, 2, 3, 4, 3, 4>>

\* steps[a] is a repeat_start with a count, directly followed by its
\* repeat_end, and inside no other loop
EmptyLoop(ss, a) ==
    /\ a + 1 <= Len(ss) - 1
    /\ IsStart(StepAt(ss, a)) /\ HasCount(StepAt(ss, a))
    /\ IsEnd(StepAt(ss, a + 1))
    /\ Enclosing(ss, a) = {}

\* C25: for an empty loop body with count n, the plan contains the start
\* marker and the end marker n times each and no inner step.
C25_EmptyLoopMarkers ==
    (Expanded /\ result.val.ok) =>
        \A a \in 0..(Len(steps) - 1) :
            EmptyLoop(steps, a) =>
                /\ Occurrences(result.val.plan, a) = StepAt(steps, a).params.count
                /\ Occurrences(result.val.plan, a + 1) = StepAt(steps, a).params.count

\* C25, amended: for an empty loop body with count n, the plan contains the
\* start marker once, at once followed by the end marker n times, one per
\* iteration, and by no inner step.
C25_EmptyLoopStartOnce ==
    (Expanded /\ result.val.ok) =>
        \A a \in 0..(Len(steps) - 1) :
            EmptyLoop(steps, a) =>
                LET n == StepAt(steps, a).params.count
                    plan == result.val.plan
                IN  /\ Occurrences(plan, a) = 1
                    /\ Occurrences(plan, a + 1) = n
                    /\ \E p \in DOMAIN plan :
                           /\ plan[p][1] = a
                           /\ p + n <= Len(plan)
                           /\ \A k \in 1..n : plan[p + k][1] = a + 1

\* [repeat_start(3), repeat_end] gives [start, end, end, end]
C25_Witness ==
    /\ Expanded
    /\ steps = <<RepeatStart(3), RepeatEnd>>
    /\ EmptyLoop(steps, 0)
    /\ result.val.ok
    /\ PlanIndices(result.val.plan) = <<0, 1, 1, 1>>

\* the index of the repeat_end that closes the repeat_start at a
EndOf(ss, a) == CHOOSE j \in 0..(Len(ss) - 1) : ClosedAt(ss, a, j)

\* the iteration (0-based) of the loop a..j that plan position p lies in:
\* the number of the loop's repeat_end entries since its last repeat_start
\* entry
IterationOf(plan, p, a, j) ==
    LET q == CHOOSE q \in 1..p :
                 /\ plan[q][1] = a
                 /\ \A r \in (q + 1)..p : plan[r][1] # a
    IN  Cardinality({r \in (q + 1)..(p - 1) : plan[r][1] = j})

\* the sum of iteration + 1 over the loops S around plan position p
RECURSIVE LevelsAround(_, _, _, _)
LevelsAround(ss, plan, p, S) ==
    IF S = {} THEN 0
    ELSE LET a == CHOOSE x \in S : TRUE
         IN  IterationOf(plan, p, a, EndOf(ss, a)) + 1
                 + LevelsAround(ss, plan, p, S \ {a})

\* C26: a repeat_start entry carries the level L of its scan; the entries
\* of iteration k of its body and the repeat_end entry after iteration k
\* carry L + k + 1, nested loops continuing from that level.  So the level
\* of every entry is the sum, over the loops around its step, of the
\* iteration it lies in plus one.
C26_NestLevels ==
    (Expanded /\ result.val.ok) =>
        LET plan == result.val.plan IN
        \A p \in DOMAIN plan :
            plan[p][2] = LevelsAround(steps, plan, p, Enclosing(steps, plan[p][1]))

\* two nested loops of count 2 around X
C26_Witness ==
    /\ Expanded
    /\ steps = <<RepeatStart(2), RepeatStart(2), PlainStep, RepeatEnd, RepeatEnd>>
    /\ result.val.ok
    /\ result.val.plan =
           <<<<0, 0>>,
             <<1, 1>>, <<2, 2>>, <<3, 2>>, <<2, 3>>, <<3, 3>>, <<4, 1>>,
             <<1, 2>>, <<2, 3>>, <<3, 3>>, <<2, 4>>, <<3, 4>>, <<4, 2>>>>

\* the iteration of each loop around the step of plan position p
IterationsAt(ss, plan, p) ==
    [a \in Enclosing(ss, plan[p][1]) |-> IterationOf(plan, p, a, EndOf(ss, a))]

\* C27: two plan entries of a step that come from different iteration
\* combinations of the loops around it carry different nest levels.
C27_DistinctIterations ==
    (Expanded /\ result.val.ok) =>
        LET plan == result.val.plan IN
        \A p, q \in DOMAIN plan :
            (plan[p][1] = plan[q][1]
                /\ IterationsAt(steps, plan, p) # IterationsAt(steps, plan, q)) =>
                plan[p][2] # plan[q][2]

\* the part of C27 that holds: inside a single loop
C27_DistinctInOneLoop ==
    (Expanded /\ result.val.ok) =>
        LET plan == result.val.plan IN
        \A p, q \in DOMAIN plan :
            (plan[p][1] = plan[q][1] /\ p # q
                /\ Cardinality(Enclosing(steps, plan[p][1])) = 1) =>
                plan[p][2] # plan[q][2]

(***************************************************************************)
(* More claims about the run.                                              *)
(***************************************************************************)
\* worker t has built its plan
PlanBuilt(t) == thr[t].pos >= 1 /\ thr[t].pc \notin {"idle", "loop", "plan"}

\* the plan entries of worker t whose step is enabled
EnabledEntries(t) ==
    {p \in DOMAIN thr[t].plan : StepAt(steps, thr[t].plan[p][1]).enabled}

\* C28: the total is the number of plan entries whose step is enabled, loop
\* markers and repetitions included; the executed count never exceeds it,
\* and when the run has consumed its plan without failure, the executed
\* count equals the total (no step is edited during the runs checked).
C28_ExecutedEqualsTotal ==
    \A t \in DOMAIN thr :
        PlanBuilt(t) =>
            /\ thr[t].total = Cardinality(EnabledEntries(t))
            /\ thr[t].executed <= thr[t].total
            /\ thr[t].outcome = "completed" => thr[t].executed = thr[t].total

\* a loop of two iterations around a disabled step: five entries, three of
\* them counted and executed
C28_Witness ==
    \E t \in DOMAIN thr :
        /\ PlanBuilt(t)
        /\ thr[t].outcome = "completed"
        /\ Len(thr[t].plan) = 5
        /\ thr[t].total = 3
        /\ thr[t].executed = 3

\* the total is not computed again after the plan is built, whatever is
\* toggled during the run
C28_TotalComputedOnce ==
    [][\A t \in DOMAIN thr :
           (PlanBuilt(t) /\ thr'[t].pc \notin {"idle", "loop", "plan"}) =>
               thr'[t].total = thr[t].total]_vars

\* C29: the worker observes the cancellation flag only at plan-entry
\* boundaries and at the ticks of a scheduled-time wait: no image step
\* leaves its search because the flag was cleared.
C29_FlagOnlyAtBoundaries ==
    \A t \in DOMAIN thr :
        thr[t].broke => thr[t].step.type \notin ImageTypes

\* worker t is in the polling loop of a scheduled wait, or at its exit
InWait(w) == w.pc \in {"wait", "wait_exit"}

\* the handler of worker t's step left its scheduled wait for the flag
WaitCancelled(w) == w.broke /\ w.step.type \in {"cmd_command", "sleep"}

\* C30: when the flag is cleared during a scheduled wait, the next poll
\* ends the wait without counting down further, the command is not run,
\* no later plan entry is dispatched and the run ends, as cancelled when
\* plan entries were left.
C30_WaitCancelled ==
    [][\A t \in DOMAIN thr :
           LET w == thr[t]
               v == thr'[t]
           IN  /\ (w.pc = "wait" /\ ~running /\ v # w) =>
                      v.pc = "wait_exit" /\ v.remaining = w.remaining
               /\ (w.pc = "wait_exit" /\ ~running /\ v # w) =>
                      /\ WaitCancelled(v)
                      /\ v.events = w.events
                      /\ v.pc = "entry"
               /\ WaitCancelled(w) =>
                      /\ v.executed = w.executed
                      /\ v.events = w.events
                      /\ v.pc \in {"entry", "finish", "done"}
                      /\ (v.pc \in {"finish", "done"} /\ w.pos <= Len(w.plan)) =>
                             v.outcome = "cancelled"]_vars

\* a wait with time left was cancelled and the run has ended
C30_Witness ==
    \E t \in DOMAIN thr :
        /\ WaitCancelled(thr[t])
        /\ thr[t].remaining > 0
        /\ thr[t].pc = "done"
        /\ thr[t].outcome = "cancelled"
        /\ \A i \in DOMAIN thr[t].events : ~IsSpawn(thr[t].events[i])

\* the last event of worker w's current step
LastEvent(w) == w.events[Len(w.events)]

\* the worker's step spawned its process in this step of the run
Spawned(w, v) == w.pc = "cmd_run" /\ v.pc # "cmd_run"

\* C31: a cmd_command that passed the safety check and waits for completion
\* fails and halts the run on a non-zero exit code or a timeout and succeeds
\* on exit code 0; one that does not wait succeeds once the process is
\* spawned.
C31_CommandOutcome ==
    [][\A t \in DOMAIN thr :
           LET w == thr[t]
               v == thr'[t]
               e == LastEvent(v)
               wait_completion == Get(w.step.params, "wait_completion", TRUE)
           IN  Spawned(w, v) =>
                 /\ IsSpawn(e)
                 /\ e[3] = (IF wait_completion THEN "run" ELSE "popen")
                 /\ IF wait_completion /\ e[4] # "zero"
                    THEN /\ v.outcome = "failed"
                         /\ v.pc = "finish"
                         /\ ~running'
                         /\ v.executed = w.executed
                    ELSE /\ v.outcome = w.outcome
                         /\ v.pc = "entry"
                         /\ v.pos = w.pos + 1
                         /\ running' = running]_vars

\* a command that was waited for timed out and the run has ended as failed
C31_Witness ==
    \E t \in DOMAIN thr :
        /\ thr[t].pc = "done"
        /\ thr[t].outcome = "failed"
        /\ thr[t].events # << >>
        /\ IsSpawn(LastEvent(thr[t]))
        /\ LastEvent(thr[t])[3] = "run"
        /\ LastEvent(thr[t])[4] = "timeout"

(***************************************************************************)
(* The run of sequences whose loop markers carry a count or none, as a     *)
(* loaded file may hold them, and are enabled or not.                      *)
(***************************************************************************)
MarkerPool ==
    {Step("key", [key |-> "enter"], TRUE), RepeatStart(2), RepeatStartNoCount,
     Step("repeat_end", NoParams, TRUE),
     Step("repeat_start", [count |-> 2], FALSE), Step("repeat_end", NoParams, FALSE)}

InitMarker ==
    /\ steps \in SeqsUpTo(MarkerPool, MaxSteps)
    /\ running = FALSE
    /\ run_button = "normal"
    /\ execution_start_index = 0
    /\ thr = [t \in {1} |-> IdleThread]
    /\ command = None
    /\ result = NoResult

SpecMarker == InitMarker /\ [][Next]_vars

\* C32: the dispatch of an enabled repeat_start or repeat_end never fails,
\* whatever params the marker carries.
C32_MarkerNeverFails ==
    \A t \in DOMAIN thr :
        (thr[t].outcome = "failed" /\ thr[t].executed > 0) => ~IsMarker(thr[t].step)

\* the number of colons of a text
Colons(text) == Cardinality({i \in 1..Len(text) : CharAt(text, i) = ":"})

\* a time string that is not three colon-separated integers in the range of
\* hours, minutes and seconds
Malformed(text) ==
    \/ Colons(text) # 2
    \/ \E k \in 1..3 : ~IsIntText(time_parts(text)[k])
    \/ IntPart(text, 1) \notin 0..23
    \/ IntPart(text, 2) \notin 0..59
    \/ IntPart(text, 3) \notin 0..59

IsWaitOrSpawn(e) == IsWait(e) \/ IsSpawn(e)

C33_MalformedTimeRejected ==
    (result.op = "wait" /\ Malformed(command)) => ~result.val.ok

C34_CancelledNeverDispatches ==
    [][\A t \in DOMAIN thr : thr[t].cancelled => ~Dispatches(t)]_vars

\* C35: in every state of a run the executed count is at most the total,
\* also when steps are enabled or disabled while the run is in progress.
C35_ProgressAtMostTotal ==
    \A t \in DOMAIN thr : PlanBuilt(t) => thr[t].executed <= thr[t].total

\* C36: when the flag is cleared while an image step is between retry
\* attempts, the handler makes no further capture and no click, the step
\* raises the image-not-found failure and the run ends through the failure
\* path.
C36_CancelledSearchFails ==
    [][\A t \in DOMAIN thr :
           LET w == thr[t]
               v == thr'[t]
           IN  (w.pc = "img" /\ ~running /\ v # w) =>
                   /\ v.events = w.events
                   /\ v.outcome = "failed"
                   /\ v.err[2] = "image_not_found"
                   /\ v.pc = "finish"
                   /\ v.row = w.entry[1] + 1
                   /\ ~running']_vars

\* an image step left its search after one capture, without a click, and
\* the run has ended as failed
C36_Witness ==
    \E t \in DOMAIN thr :
        /\ thr[t].pc = "done"
        /\ thr[t].broke
        /\ thr[t].outcome = "failed"
        /\ thr[t].attempt = 1
        /\ thr[t].step.type = "image_relative_right_click"
        /\ Cardinality({i \in DOMAIN thr[t].events :
                            thr[t].events[i][1] = "capture"}) = 1
        /\ \A i \in DOMAIN thr[t].events : thr[t].events[i][1] # "click"

\* C37: when a scheduled wait is interrupted by cancellation, the step that
\* holds it returns without error and counts as a succeeded step, and the
\* process of a cmd_command is not spawned after the interrupted wait.
C37_InterruptedWaitSucceeds ==
    [][\A t \in DOMAIN thr :
           LET w == thr[t]
               v == thr'[t]
           IN  /\ (w.pc = "wait_exit" /\ ~running /\ v # w) =>
                      /\ v.pc = "entry"
                      /\ v.pos = w.pos + 1
                      /\ v.outcome = None
                      /\ v.err = << >>
                      /\ v.events = w.events
                      /\ run_button' = run_button
               /\ Spawned(w, v) => ~w.broke]_vars

\* a sleep step left its scheduled wait for the flag, with time left, and
\* the run went on to its end without a failure
C37_Witness ==
    \E t \in DOMAIN thr :
        /\ thr[t].step.type = "sleep"
        /\ thr[t].broke
        /\ thr[t].remaining > 0
        /\ thr[t].pc = "done"
        /\ thr[t].outcome = "cancelled"
        /\ thr[t].err = << >>

\* the sequence with every step enabled
AllEnabled(ss) == [i \in DOMAIN ss |-> [ss[i] EXCEPT !.enabled = TRUE]]

\* the entries of a plan whose step is enabled, in order
EnabledPart(plan, ss) ==
    LET IsEnabled(e) == StepAt(ss, e[1]).enabled IN SelectSeq(plan, IsEnabled)

\* C38: the plan does not depend on the enabled flags: disabled markers
\* delimit their loop as enabled ones do; the run dispatches the entries
\* whose step is enabled and skips the others.
C38_PlanIgnoresEnabled ==
    \A t \in DOMAIN thr :
        LET w == thr[t] IN
        PlanBuilt(t) =>
            /\ w.plan = PlanFor(w.mode, AllEnabled(steps), w.start_index).plan
            /\ \A i \in DOMAIN w.log : StepAt(steps, w.log[i][1]).enabled
            /\ w.outcome = "completed" => w.log = EnabledPart(w.plan, steps)

\* a loop between a disabled repeat_start and a disabled repeat_end ran its
\* body twice and dispatched no marker
C38_Witness ==
    \E t \in DOMAIN thr :
        /\ thr[t].outcome = "completed"
        /\ Len(steps) = 3
        /\ IsStart(steps[1]) /\ ~steps[1].enabled
        /\ IsEnd(steps[3]) /\ ~steps[3].enabled
        /\ thr[t].plan = <<<<0, 0>>, <<1, 1>>, <<2, 1>>, <<1, 2>>, <<2, 2>>>>
        /\ thr[t].log = <<<<1, 1>>, <<1, 2>>>>

(***************************************************************************)
(* The plan of a run from the selected step, as a pure function of the     *)
(* sequence and the selected index.                                        *)
(***************************************************************************)
FromPool == {PlainStep, RepeatStart(2), RepeatEnd}

InitFrom ==
    /\ steps \in SeqsUpTo(FromPool, MaxPlanSteps)
    /\ running = FALSE
    /\ run_button = "normal"
    /\ execution_start_index = 0
    /\ thr = NoThreads
    /\ command = None
    /\ result = NoResult

\* _generate_execution_plan_from_steps(self.steps[start_index:], start_index)
ExpandFrom ==
    /\ result.op = None
    /\ \E start_index \in 0..(Len(steps) - 1) :
         result' = Returned("expand_from",
                            [start_index |-> start_index,
                             built |-> PlanFor("from", steps, start_index)])
    /\ UNCHANGED <<steps, running, run_button, execution_start_index, thr, command>>

NextFrom == ExpandFrom

SpecFrom == InitFrom /\ [][NextFrom]_vars

\* the innermost loop whose body holds step k: its repeat_start
InnerStart(ss, k) == CHOOSE a \in Enclosing(ss, k) : \A b \in Enclosing(ss, k) : b <= a

\* step k lies in a loop body of the balanced sequence ss, before the
\* loop's repeat_end
InsideLoop(ss, k) ==
    /\ Balanced(ss)
    /\ Enclosing(ss, k) # {}
    /\ EndOf(ss, InnerStart(ss, k)) > k

\* the entries of a plan for the steps after index j
After(plan, j) == LET Later(e) == e[1] > j IN SelectSeq(plan, Later)

\* what the claim states for the plan built from index k inside the loop
\* that ends at j
CutLoopPlan(ss, k, j, built) ==
    /\ built.ok
    /\ \A i \in k..(j - 1) : Occurrences(built.plan, i) = 1
    /\ Occurrences(built.plan, j) = 0
    /\ After(built.plan, j) = After(_generate_execution_plan(ss).plan, j)

\* C39: a run from a step k inside a loop body raises no structural error,
\* has each step from k to the loop's repeat_end once and that repeat_end
\* not at all, and expands the steps after the loop as a full run does.
C39_FromInsideLoop ==
    (result.op = "expand_from" /\ InsideLoop(steps, result.val.start_index)) =>
        LET k == result.val.start_index
        IN  CutLoopPlan(steps, k, EndOf(steps, InnerStart(steps, k)), result.val.built)

\* step k lies in the body of one loop only, and no loop starts between k
\* and that loop's repeat_end
InsideOneLoop(ss, k) ==
    /\ InsideLoop(ss, k)
    /\ Cardinality(Enclosing(ss, k)) = 1
    /\ \A i \in k..(EndOf(ss, InnerStart(ss, k)) - 1) : ~IsStart(StepAt(ss, i))

\* C39 for a loop that is not nested and has no loop in the part of its body
\* from k on; a loop that starts there is expanded as usual.
C39_FromInsideOneLoop ==
    (result.op = "expand_from" /\ InsideOneLoop(steps, result.val.start_index)) =>
        LET k == result.val.start_index
        IN  CutLoopPlan(steps, k, EndOf(steps, InnerStart(steps, k)), result.val.built)

\* [repeat_start(2), A, B, repeat_end, C] from B gives [B, C]
C39_Witness ==
    /\ result.op = "expand_from"
    /\ steps = <<RepeatStart(2), PlainStep, PlainStep, RepeatEnd, PlainStep>>
    /\ result.val.start_index = 2
    /\ result.val.built.ok
    /\ result.val.built.plan = <<Entry(2, 0), Entry(4, 0)>>

(***************************************************************************)
(* Both expanders on sequences whose repeat_start carries no count, a      *)
(* count of zero or less, or a count of two.                               *)
(***************************************************************************)
CountPool ==
    {PlainStep, RepeatEnd, RepeatStartNoCount, RepeatStart(0 - 1), RepeatStart(0),
     RepeatStart(2)}

InitCount ==
    /\ steps \in SeqsUpTo(CountPool, MaxPlanSteps)
    /\ running = FALSE
    /\ run_button = "normal"
    /\ execution_start_index = 0
    /\ thr = NoThreads
    /\ command = None
    /\ result = NoResult

NextCount == ExpandPlan \/ ExpandFrom

SpecCount == InitCount /\ [][NextCount]_vars

\* steps a..j of ss are a loop: a repeat_start and the repeat_end closing it
IsLoop(ss, a, j) == IsStart(StepAt(ss, a)) /\ ClosedAt(ss, a, j)

\* the sequence with the count of the repeat_start at a set to n
WithCount(ss, a, n) == [ss EXCEPT ![a + 1].params = [count |-> n]]

\* the sequence with the loop a..j replaced by one plain step at a
WithoutBody(ss, a, j) ==
    [i \in 1..(Len(ss) - (j - a)) |->
        IF i = a + 1 THEN PlainStep ELSE IF i <= a THEN ss[i] ELSE ss[i + (j - a)]]

\* the plan with the indices after a moved up by d / every index moved down by k
ShiftBy(plan, a, d) ==
    [p \in DOMAIN plan |->
        Entry(IF plan[p][1] > a THEN plan[p][1] + d ELSE plan[p][1], plan[p][2])]
Unoffset(plan, k) == [p \in DOMAIN plan |-> Entry(plan[p][1] - k, plan[p][2])]

\* what the claim states of the plan of the balanced sequence ss
CountRule(ss, plan) ==
    \A a, j \in 0..(Len(ss) - 1) :
        IsLoop(ss, a, j) =>
            /\ ~HasCount(StepAt(ss, a)) =>
                   plan = _generate_execution_plan(WithCount(ss, a, 1)).plan
            /\ (HasCount(StepAt(ss, a)) /\ StepAt(ss, a).params.count <= 0) =>
                   /\ \A i \in (a + 1)..j : Occurrences(plan, i) = 0
                   /\ Enclosing(ss, a) = {} => Occurrences(plan, a) = 1
                   /\ plan = ShiftBy(_generate_execution_plan(WithoutBody(ss, a, j)).plan,
                                     a, j - a)

\* C40: a loop whose repeat_start has no count is expanded as with count 1;
\* a loop whose count is zero or less leaves its start marker alone in the
\* plan, with no body step and no repeat_end, and the expansion goes on
\* after the repeat_end; by both expanders.
C40_CountDefaultAndZero ==
    /\ (result.op = "expand" /\ Balanced(steps)) =>
           result.val.ok /\ CountRule(steps, result.val.plan)
    /\ (result.op = "expand_from"
            /\ Balanced(StepsFrom(steps, result.val.start_index))) =>
           /\ result.val.built.ok
           /\ CountRule(StepsFrom(steps, result.val.start_index),
                        Unoffset(result.val.built.plan, result.val.start_index))

\* [repeat_start(no count), A, repeat_end, repeat_start(-1), repeat_end]
\* gives [start, A, end, start]
C40_Witness ==
    /\ result.op = "expand"
    /\ steps = <<RepeatStartNoCount, PlainStep, RepeatEnd, RepeatStart(0 - 1), RepeatEnd>>
    /\ result.val.ok
    /\ result.val.plan = <<Entry(0, 0), Entry(1, 1), Entry(2, 1), Entry(3, 0)>>

====
